---- MODULE Spec2Model ----
(***************************************************************************)
(* Bundled ray handlers of the renderer:                                   *)
(*   rayBundleHandler                  (RayHandlers.cc)                    *)
(*   occlusionQueryBundleHandler       (RayHandlers.cc)                    *)
(*   presenceShadowsQueryBundleHandler (RayHandlers.cc)                    *)
(*   xpuOcclusionQueryBundleHandler    (XPURayHandlers.cc)                 *)
(*                                                                         *)
(* SpecRay  : one worker runs rayBundleHandler on one batch of RayStates.  *)
(* SpecOccl : one worker runs the three occlusion handlers on one batch of *)
(*            BundledOcclRays (each on its own copy of the batch).         *)
(* SpecXPU  : several workers run xpuOcclusionQueryBundleHandler at once.  *)
(* SpecOneRay : rayBundleHandler followed for one RayState, with the values *)
(*            it computes (radiance, alpha, AOV calls).                     *)
(* SpecPar  : two workers run rayBundleHandler at once, each on a batch of  *)
(*            its own; the radiance queue and the shade queues are shared.  *)
(* SpecSortKey : the secondary sort key of the entries of a shade sub-batch, *)
(*            computed for two rays.                                         *)
(* The arena of the worker (bump pointer, SCOPED_MEM, bookmark) and the bulk *)
(* calls of rayBundleHandler are followed in SpecRay and SpecOccl.           *)
(***************************************************************************)
EXTENDS Integers, Sequences, FiniteSets, TLC

\* ---------------------------------------------------------------- bounds
MaxRays == 3          \* largest batch of RayStates
MaxMat == 2           \* material ids are 1..MaxMat
MaxOcclRays == 2      \* largest batch of BundledOcclRays
NumWorkers == 3       \* workers sharing the GPU
MaxParRays == 1       \* largest batch of a worker of SpecPar

VARIABLES
    \* environment shared by every handler
    cancelled,        \* the process-wide cancellation flag read by CHECK_CANCELLATION
    radianceQueue,    \* entries given to addRadianceQueueEntries, in order
    \* rayBundleHandler
    rayStates,        \* the batch: rayStates[i] is the RayState with index i
    pc,               \* position of the worker inside rayBundleHandler
    stagesRun,        \* the stages of the handler that have run, in order
    sortedEntries,    \* sortedEntries[1..numSortedEntries]
    maxSortKey,
    numMisses,
    rayStatesToFree,  \* rayStatesToFree[1..numRayStatesToFree]
    freed,            \* RayState indices handed to freeRayStates
    shadeQueues,      \* per material id: the addEntries calls it received
    currEntry,        \* position of currEntry in sortedEntries (1-based)
    \* occlusion handlers
    occlRays,         \* the batch of BundledOcclRays
    disableShadowing, \* !fs.mIntegrator->getEnableShadowing()
    lpeUnoccluded,    \* fs.mAovSchema->hasLpePrefixFlags(sLpePrefixUnoccluded)
    hpc,              \* per handler: position of the worker inside it
    entries,          \* per handler: the order in which it holds the batch (ray ids)
    results,          \* per handler: the results buffer filled by its resolver
    outcome,          \* per handler: what the resolver did for each ray, in order
    \* GPU contention counter
    threadsUsingGPU,
    wpc,              \* SpecXPU: position of each worker
    \* rayBundleHandler, one RayState followed in detail
    oneRay,           \* the RayState, with what the scene holds along its ray
    aovSchemaEmpty,   \* fs.mAovSchema->empty()
    onePc,            \* position of the worker for this RayState
    oneOut,           \* what the handler produced for this RayState, and the
                      \* visible-light lookups it made
    lightSampleCount, \* fs.mIntegrator->getLightSampleCount()
    lightCount,       \* fs.mScene->getLightCount()
    \* several workers running rayBundleHandler
    par,              \* per worker: its batch, its arena contents, its position
    parShadeQueues,   \* per material id: the addEntries calls of all the workers
    \* thread-local state of the worker that runs a handler
    arenaPtr,         \* tls->mArena: the bump pointer, counted in array elements
    scopedMem,        \* the pointer SCOPED_MEM(arena) saved on entry to the handler
    memBookmark,      \* rayBundleHandler: arena->getPtr() taken before the submission loop
    calls,            \* rayBundleHandler: the bulk calls made on pbrTls and the shade queues,
                      \* each with the source line of the call and the count it is given
    \* the secondary sort key of the shade sub-batch entries
    shadeRays,        \* two rays of a sub-batch: geomID and primID of each
    shadeKeys         \* shadeEntries[i].mSortKey of the two rays, once computed

envVars == <<cancelled, radianceQueue>>
rayVars == <<rayStates, pc, stagesRun, sortedEntries, maxSortKey, numMisses,
             rayStatesToFree, freed, shadeQueues, currEntry>>
occlVars == <<occlRays, disableShadowing, lpeUnoccluded, hpc, entries, results, outcome>>
xpuVars == <<threadsUsingGPU, wpc>>
oneVars == <<oneRay, aovSchemaEmpty, onePc, oneOut, lightSampleCount, lightCount>>
parVars == <<par, parShadeQueues>>
tlsVars == <<arenaPtr, scopedMem, memBookmark, calls>>
keyVars == <<shadeRays, shadeKeys>>
vars == <<envVars, rayVars, occlVars, xpuVars, oneVars, parVars, tlsVars, keyVars>>

\* ------------------------------------------------------------ utilities
Range(s) == {s[i] : i \in 1..Len(s)}

RECURSIVE SeqSum(_)
SeqSum(s) == IF s = <<>> THEN 0 ELSE Head(s) + SeqSum(Tail(s))

\* number of positions of s holding x
Count(s, x) == Cardinality({i \in 1..Len(s) : s[i] = x})

\* all sequences over S of length 1..n
SeqsUpTo(S, n) == UNION {[1..k -> S] : k \in 1..n}

IsPrefix(s, t) == Len(s) <= Len(t) /\ SubSeq(t, 1, Len(s)) = s

\* ------------------------------------------------- environment (shared)
\* The render driver may request cancellation at any moment.
RequestCancel ==
    /\ ~cancelled
    /\ cancelled' = TRUE
    /\ UNCHANGED <<keyVars, tlsVars, radianceQueue, rayVars, occlVars, xpuVars, oneVars, parVars>>

\* ===================================================== rayBundleHandler
\* What the accelerator, the layer and the integrator report for a ray:
\*   hit = "miss"  : ray.geomID == -1
\*   hit = "nomat" : geometry hit, getIntersectionMaterial gives no material
\*   hit = "mat"   : geometry hit with material id mat (after raySwitch)
\*   volHit        : computeRadianceVolume reported a volume along the ray
RayOutcomes ==
    {[hit |-> "miss", mat |-> 0, volHit |-> v] : v \in BOOLEAN}
    \cup {[hit |-> "nomat", mat |-> 0, volHit |-> v] : v \in BOOLEAN}
    \cup {[hit |-> "mat", mat |-> m, volHit |-> v] : m \in 1..MaxMat, v \in BOOLEAN}

\* sort key written for a ray that hit nothing
MissSortKey == 0

\* a material id taken one too low: the first material would share key 0 with the misses
MaterialSortKeyOffByOne(mat) == mat - 1

\* sort key written for a hit with a material: material->getMaterialId()
MaterialSortKey(mat) == mat

\* a maximum that is never raised
MaxNeverRaised(a, b) == a

\* std::max(maxSortKey, sortedEntry.mSortKey)
Max(a, b) == IF a >= b THEN a ELSE b

\* The classification loop over rayStates[i .. numEntries].
RECURSIVE ClassifyLoop(_, _, _)
ClassifyLoop(rs, i, acc) ==
    IF i > Len(rs) THEN acc
    ELSE LET r == rs[i] IN
         IF r.hit = "miss" THEN
             ClassifyLoop(rs, i + 1,
                 [acc EXCEPT !.sorted = Append(@, [mSortKey |-> MissSortKey,
                                                   mRsIdx |-> i,
                                                   mMaterial |-> 0])])
         ELSE IF r.hit = "mat" THEN
             ClassifyLoop(rs, i + 1,
                 [acc EXCEPT !.sorted = Append(@, [mSortKey |-> MaterialSortKey(r.mat),
                                                   mRsIdx |-> i,
                                                   mMaterial |-> r.mat]),
                             !.maxKey = Max(@, MaterialSortKey(r.mat))])
         ELSE
             ClassifyLoop(rs, i + 1,
                 [acc EXCEPT !.toFree = Append(@, i),
                             !.rad = IF r.volHit
                                     THEN Append(@, [rs |-> i, src |-> "nomat"])
                                     ELSE @])

\* smartSort32: the entries in ascending order of mSortKey; entries with equal
\* keys may come out in any relative order.
SmartSort32(s) ==
    {[i \in 1..Len(s) |-> s[p[i]]] :
        p \in {q \in [1..Len(s) -> 1..Len(s)] :
                 /\ \A i, j \in 1..Len(s) : i # j => q[i] # q[j]
                 /\ \A i, j \in 1..Len(s) : i < j => s[q[i]].mSortKey <= s[q[j]].mSortKey}}

\* The two paths of smartSort32<SortedEntry, 0, RAY_HANDLER_STD_SORT_CUTOFF>.
RAY_HANDLER_STD_SORT_CUTOFF == 200

SmartSortPath(n) == IF n < RAY_HANDLER_STD_SORT_CUTOFF THEN "bucket" ELSE "std"

\* the entries of s whose key is k, in the order they have in s
RECURSIVE WithKey(_, _)
WithKey(s, k) ==
    IF s = <<>> THEN <<>>
    ELSE (IF Head(s).mSortKey = k THEN <<Head(s)>> ELSE <<>>) \o WithKey(Tail(s), k)

\* Bucket path: one bucket per key 0..maxKey, emptied in ascending key order.
\* An entry whose key is above maxKey has no bucket.
RECURSIVE BucketSort32(_, _, _)
BucketSort32(s, k, maxKey) ==
    IF k > maxKey THEN <<>> ELSE WithKey(s, k) \o BucketSort32(s, k + 1, maxKey)

\* Comparison path: std::sort on the key; the order of equal keys is unspecified.
StdSort(s) ==
    {t \in [1..Len(s) -> Range(s)] :
        /\ \A e \in Range(s) : Count(t, e) = Count(s, e)
        /\ \A i, j \in 1..Len(s) : i < j => t[i].mSortKey <= t[j].mSortKey}

\* a run that always ends at its first entry
SpanEndSingle(mem, pos, endPos, key) == pos

\* while (spanEnd != endEntry && spanEnd->mSortKey == key) ++spanEnd;
\* mem is the memory of the entry array, endPos the position of endEntry.
RECURSIVE SpanEnd(_, _, _, _)
SpanEnd(mem, pos, endPos, key) ==
    IF pos # endPos /\ pos <= Len(mem) /\ mem[pos].mSortKey = key
    THEN SpanEnd(mem, pos + 1, endPos, key)
    ELSE pos

\* What the entry array holds when the handler reads it.  Slots
\* 1..numSortedEntries were written by the classification loop; the arena does
\* not clear memory, so the remaining slots of the allocation (numEntries in
\* all) hold whatever an earlier batch left there.
StaleEntries(n) ==
    [1..n -> [mSortKey : {0, 1}, mRsIdx : 1..(n + 1), mMaterial : {0}]]

\* arena->allocArray<T>(n): the bump pointer moves up by the n elements
AllocArray(ptr, n) == ptr + n

\* a setPtr that leaves the pointer where it is
ArenaSetPtrKeeps(ptr, mark) == ptr

\* arena->setPtr(mark)
ArenaSetPtr(ptr, mark) == mark

\* a scope that puts nothing back when it is left
ScopedMemNoRewind(saved, ptr, returns) == ptr

\* SCOPED_MEM(arena): the pointer saved on entry is put back when the scope of
\* the handler is left, by whichever return; ptr is the pointer the step
\* leaves when the handler goes on.
ScopedMem(saved, ptr, returns) == IF returns THEN saved ELSE ptr

\* --- steps of the handler
Intersect ==
    /\ pc = "start"
    /\ pc' = "volume"
    /\ stagesRun' = Append(stagesRun, "intersect")
    /\ scopedMem' = arenaPtr
    /\ UNCHANGED <<keyVars, arenaPtr, memBookmark, calls, envVars, rayStates, sortedEntries, maxSortKey, numMisses,
                   rayStatesToFree, freed, shadeQueues, currEntry, occlVars, xpuVars, oneVars, parVars>>

VolumePass ==
    /\ pc = "volume"
    /\ pc' = "pollVolume"
    /\ stagesRun' = Append(stagesRun, "volume")
    /\ UNCHANGED <<keyVars, tlsVars, envVars, rayStates, sortedEntries, maxSortKey, numMisses,
                   rayStatesToFree, freed, shadeQueues, currEntry, occlVars, xpuVars, oneVars, parVars>>

\* a poll point that does not look at the cancellation flag
PollAtIgnoringFlag(point, next) ==
    /\ pc = point
    /\ pc' = next

\* CHECK_CANCELLATION(pbrTls, return) at a poll point; next is where the
\* handler continues when no cancellation is seen.
PollAt(point, next) ==
    /\ pc = point
    /\ pc' = IF cancelled THEN "cancelled" ELSE next

PollAfterVolume ==
    /\ PollAt("pollVolume", "classify")
    /\ arenaPtr' = ScopedMem(scopedMem, arenaPtr, pc' = "cancelled")
    /\ UNCHANGED <<keyVars, scopedMem, memBookmark, calls, envVars, rayStates, stagesRun, sortedEntries, maxSortKey, numMisses,
                   rayStatesToFree, freed, shadeQueues, currEntry, occlVars, xpuVars, oneVars, parVars>>

Classify ==
    /\ pc = "classify"
    /\ LET c == ClassifyLoop(rayStates, 1,
                    [sorted |-> <<>>, maxKey |-> 0, toFree |-> <<>>, rad |-> <<>>])
       IN /\ sortedEntries' = c.sorted
          /\ maxSortKey' = c.maxKey
          /\ rayStatesToFree' = c.toFree
          /\ radianceQueue' = radianceQueue \o c.rad
          /\ calls' = calls \o [i \in 1..Len(c.rad) |->
                                    [fn |-> "addRadianceQueueEntries", at |-> 468, n |-> 1]]
    /\ arenaPtr' = AllocArray(AllocArray(arenaPtr, Len(rayStates)), Len(rayStates))
    /\ pc' = "sort"
    /\ stagesRun' = Append(stagesRun, "classify")
    /\ UNCHANGED <<keyVars, scopedMem, memBookmark, cancelled, rayStates, numMisses, freed, shadeQueues, currEntry,
                   occlVars, xpuVars, oneVars, parVars>>

Sort ==
    /\ pc = "sort"
    /\ sortedEntries' \in SmartSort32(sortedEntries)
    /\ pc' = "misses"
    /\ stagesRun' = Append(stagesRun, "sort")
    /\ UNCHANGED <<keyVars, tlsVars, envVars, rayStates, maxSortKey, numMisses, rayStatesToFree, freed,
                   shadeQueues, currEntry, occlVars, xpuVars, oneVars, parVars>>

\* the miss run with one addRadianceQueueEntries call for each miss
MissRunOneByOne(mem) ==
    LET endPos == Len(sortedEntries) + 1
        n == IF mem[1].mSortKey = 0 THEN SpanEnd(mem, 2, endPos, 0) - 1 ELSE 0
    IN /\ numMisses' = n
       /\ rayStatesToFree' = rayStatesToFree \o [i \in 1..n |-> mem[i].mRsIdx]
       /\ radianceQueue' = radianceQueue \o [i \in 1..n |-> [rs |-> mem[i].mRsIdx, src |-> "miss"]]
       /\ arenaPtr' = IF n > 0 THEN AllocArray(arenaPtr, n) ELSE arenaPtr
       /\ calls' = calls \o [i \in 1..n |->
                                [fn |-> "addRadianceQueueEntries", at |-> 665, n |-> 1]]
       /\ pc' = IF n > 0 THEN "pollMisses" ELSE "free"

\* The miss run: lines 498-668.  mem is the entry array as the handler reads it.
MissRun(mem) ==
    LET endPos == Len(sortedEntries) + 1
        n == IF mem[1].mSortKey = 0 THEN SpanEnd(mem, 2, endPos, 0) - 1 ELSE 0
    IN /\ numMisses' = n
       /\ rayStatesToFree' = rayStatesToFree \o [i \in 1..n |-> mem[i].mRsIdx]
       /\ radianceQueue' = radianceQueue \o [i \in 1..n |-> [rs |-> mem[i].mRsIdx, src |-> "miss"]]
       /\ arenaPtr' = IF n > 0 THEN AllocArray(arenaPtr, n) ELSE arenaPtr
       /\ calls' = IF n > 0
                   THEN Append(calls, [fn |-> "addRadianceQueueEntries", at |-> 665, n |-> n])
                   ELSE calls
       /\ pc' = IF n > 0 THEN "pollMisses" ELSE "free"

Misses ==
    /\ pc = "misses"
    /\ IF Len(sortedEntries) > 0
       THEN MissRun(sortedEntries)
       ELSE \E mem \in StaleEntries(Len(rayStates)) : MissRun(mem)
    /\ stagesRun' = Append(stagesRun, "misses")
    /\ UNCHANGED <<keyVars, scopedMem, memBookmark, cancelled, rayStates, sortedEntries, maxSortKey, freed, shadeQueues,
                   currEntry, occlVars, xpuVars, oneVars, parVars>>

PollAfterMisses ==
    /\ PollAt("pollMisses", "free")
    /\ arenaPtr' = ScopedMem(scopedMem, arenaPtr, pc' = "cancelled")
    /\ UNCHANGED <<keyVars, scopedMem, memBookmark, calls, envVars, rayStates, stagesRun, sortedEntries, maxSortKey, numMisses,
                   rayStatesToFree, freed, shadeQueues, currEntry, occlVars, xpuVars, oneVars, parVars>>

\* pbrTls->freeRayStates(numRayStatesToFree, rayStatesToFree)
FreeRayStates ==
    /\ pc = "free"
    /\ freed' = freed \o rayStatesToFree
    /\ calls' = Append(calls, [fn |-> "freeRayStates", at |-> 673, n |-> Len(rayStatesToFree)])
    /\ memBookmark' = arenaPtr
    /\ currEntry' = numMisses + 1
    /\ pc' = "shade"
    /\ stagesRun' = Append(stagesRun, "free")
    /\ UNCHANGED <<keyVars, arenaPtr, scopedMem, envVars, rayStates, sortedEntries, maxSortKey, numMisses,
                   rayStatesToFree, shadeQueues, occlVars, xpuVars, oneVars, parVars>>

\* One iteration of the submission loop up to shadeQueue->addEntries, or the
\* exit of the loop.  When currEntry has passed endEntry (numMisses greater
\* than numSortedEntries) the loop condition currEntry != endEntry never
\* becomes false and the loop walks off the entry array.
Shade ==
    /\ pc = "shade"
    /\ LET endPos == Len(sortedEntries) + 1 IN
       IF currEntry = endPos THEN
           /\ pc' = "done"
           /\ arenaPtr' = ScopedMem(scopedMem, arenaPtr, TRUE)
           /\ UNCHANGED <<shadeQueues, currEntry, stagesRun, calls>>
       ELSE IF currEntry > endPos THEN
           /\ pc' = "overrun"
           /\ UNCHANGED <<shadeQueues, currEntry, stagesRun, arenaPtr, calls>>
       ELSE
           LET key == sortedEntries[currEntry].mSortKey
               spanEnd == SpanEnd(sortedEntries, currEntry + 1, endPos, key)
               shadeEntries == [i \in 1..(spanEnd - currEntry) |->
                                   sortedEntries[currEntry + i - 1].mRsIdx]
               mat == sortedEntries[currEntry].mMaterial
           IN /\ shadeQueues' = [shadeQueues EXCEPT ![mat] = Append(@, shadeEntries)]
              /\ arenaPtr' = AllocArray(arenaPtr, Len(shadeEntries))
              /\ calls' = Append(calls, [fn |-> "addEntries", at |-> 710, n |-> Len(shadeEntries)])
              /\ currEntry' = spanEnd
              /\ pc' = "pollShade"
              /\ stagesRun' = Append(stagesRun, "shade")
    /\ UNCHANGED <<keyVars, scopedMem, memBookmark, envVars, rayStates, sortedEntries, maxSortKey, numMisses,
                   rayStatesToFree, freed, occlVars, xpuVars, oneVars, parVars>>

PollAfterShade ==
    /\ PollAt("pollShade", "shade")
    /\ arenaPtr' = ScopedMem(scopedMem, ArenaSetPtr(arenaPtr, memBookmark), pc' = "cancelled")
    /\ UNCHANGED <<keyVars, scopedMem, memBookmark, calls, envVars, rayStates, stagesRun, sortedEntries, maxSortKey, numMisses,
                   rayStatesToFree, freed, shadeQueues, currEntry, occlVars, xpuVars, oneVars, parVars>>

\* ================================ rayBundleHandler, one RayState in detail
\* Scalars are in tenths (10 stands for 1.0); a colour is <<r, g, b>>.
Color(c) == <<c, c, c>>

sBlack == Color(0)

ColorAdd(a, b) == <<a[1] + b[1], a[2] + b[2], a[3] + b[3]>>

\* colour times a scalar given in tenths
ColorMulTenths(a, t) == <<(a[1] * t) \div 10, (a[2] * t) \div 10, (a[3] * t) \div 10>>

\* A RayState after the intersection and volume passes:
\*   hit             : "miss" (geomID == -1), "nomat" (a hit without material),
\*                     "mat" (a hit with a material)
\*   depth           : mRay.getDepth(); 1 stands for every non-primary depth
\*   volHit, volRad  : mVolHit and the channel value of mVolRad (set to sBlack
\*                     before the volume pass, so black when no volume was hit)
\*   volTalpha       : reduceTransparency(mVolTalpha)
\*   volSurface      : mVolumeSurfaceT < sMaxValue
\*   pathPixelWeight : mPathVertex.pathPixelWeight
\*   light           : what intersectVisibleLight finds along the ray
\*   lpeStateId, lpeStateIdLight : the two state ids of mPathVertex
OneRayStates ==
    {r \in [hit : {"miss", "nomat", "mat"}, depth : 0..1, volHit : BOOLEAN,
            volRad : {0, 2}, volTalpha : {0, 4, 10}, volSurface : BOOLEAN,
            pathPixelWeight : {5, 10}, light : {"none", "opaque", "transparent"},
            lpeStateId : {-1, 1}, lpeStateIdLight : {-1, 2}] :
        /\ ~r.volHit => (r.volRad = 0 /\ r.volTalpha = 10 /\ ~r.volSurface)
        /\ r.volHit => r.volTalpha # 10}

\* the volume alpha taken as the full pixel weight
VolumeAlphaFullWeight(rs) == rs.pathPixelWeight

\* pathPixelWeight * (1 - reduceTransparency(mVolTalpha))
VolumeAlpha(rs) == (rs.pathPixelWeight * (10 - rs.volTalpha)) \div 10

\* the sum taken in place of the product
TotalLightSamplesSum(samples, lights) == samples + lights

\* line 413: int totalLightSamples = getLightSampleCount() * getLightCount()
TotalLightSamples(samples, lights) == samples * lights

\* One iteration of the classification loop (387-472): the sorted entry, the
\* release-list entry, the BundledRadiance and the AOV calls it makes.
ClassifyRay(rs, aovEmpty) ==
    IF rs.hit = "miss" THEN
        [sorted |-> <<MissSortKey>>, toFree |-> 0, rad |-> <<>>,
         aov |-> IF rs.depth = 0 /\ ~aovEmpty
                 THEN <<[call |-> "visibilityAttempts", id |-> -1, radiance |-> sBlack,
                         count |-> TotalLightSamples(lightSampleCount, lightCount)]>>
                 ELSE <<>>]
    ELSE IF rs.hit = "mat" THEN
        [sorted |-> <<MaterialSortKey(1)>>, toFree |-> 0, rad |-> <<>>, aov |-> <<>>]
    ELSE
        [sorted |-> <<>>, toFree |-> 1, aov |-> <<>>,
         rad |-> IF rs.volHit
                 THEN <<[src |-> "nomat", radiance |-> Color(rs.volRad),
                         alpha |-> IF rs.depth = 0 THEN VolumeAlpha(rs) ELSE 0,
                         pathPixelWeight |-> rs.pathPixelWeight]>>
                 ELSE <<>>]

\* line 527: the hitLight of the loop body; no statement assigns it, the
\* declaration of line 532 hides it inside the depth-0 block
OuterHitLight(rs) == "none"

\* lines 532-539: the hitLight of the depth-0 block
InnerHitLight(rs) == rs.light

\* pathThroughput * hitLight->eval(...) * numHits
LightEval(rs) == Color(8)

\* mVolTr * mVolTh of a ray that passed through a volume
VolAttenuation(rs) == 5

\* the alpha of a miss when every miss gets the full pixel weight
MissAlphaFullWeight(rs) == rs.pathPixelWeight

\* alpha of a miss (520, 557-581)
MissAlpha(rs) ==
    IF rs.depth = 0 THEN
        IF InnerHitLight(rs) # "none" THEN
            IF InnerHitLight(rs) = "opaque" THEN rs.pathPixelWeight
            ELSE IF rs.volHit THEN VolumeAlpha(rs)
            ELSE 0
        ELSE IF rs.volHit THEN VolumeAlpha(rs)
        ELSE 0
    ELSE 0

\* the radiance of a miss with the light evaluated at every depth
MissRadianceAnyDepth(rs) ==
    LET direct == IF InnerHitLight(rs) # "none"
                  THEN IF rs.volHit
                       THEN ColorMulTenths(LightEval(rs), VolAttenuation(rs))
                       ELSE LightEval(rs)
                  ELSE sBlack
    IN ColorAdd(direct, Color(rs.volRad))

\* number of fs.mScene->intersectVisibleLight calls made for a miss: the call
\* of line 538 is inside if (rs->mRay.getDepth() == 0) (528)
VisibleLightLookups(rs) == IF rs.depth = 0 THEN 1 ELSE 0

\* radiance of a miss (519, 541-555, 585)
MissRadiance(rs) ==
    LET direct == IF rs.depth = 0 /\ InnerHitLight(rs) # "none"
                  THEN IF rs.volHit
                       THEN ColorMulTenths(LightEval(rs), VolAttenuation(rs))
                       ELSE LightEval(rs)
                  ELSE sBlack
    IN ColorAdd(direct, Color(rs.volRad))

\* lightAovs.lightEventTransition(pbrTls, lpeStateId, hitLight)
LightEventTransition(id) == id + 10

\* The AOV calls of a miss (598-659).  The lpeStateId that guards
\* aovAccumLightAovsBundled is the one declared at line 636; the one the
\* transition is assigned to is declared at line 640.
MissAovCalls(rs, aovEmpty) ==
    IF aovEmpty THEN <<>>
    ELSE
        LET transition == rs.depth = 0 /\ OuterHitLight(rs) # "none" /\ rs.lpeStateId >= 0
            lpeStateId == IF rs.depth = 0 THEN -1 ELSE rs.lpeStateIdLight
        IN <<[call |-> "backgroundExtraAovs", id |-> -1, radiance |-> sBlack]>>
           \o (IF rs.depth = 0 /\ rs.volHit /\ rs.volSurface
               THEN <<[call |-> "volumeOnlyAovs", id |-> -1, radiance |-> sBlack]>>
               ELSE <<>>)
           \o (IF transition
               THEN <<[call |-> "lightEventTransition", id |-> rs.lpeStateId,
                       radiance |-> sBlack]>>
               ELSE <<>>)
           \o (IF lpeStateId >= 0
               THEN <<[call |-> "lightAovs", id |-> lpeStateId,
                       radiance |-> MissRadiance(rs)]>>
               ELSE <<>>)

\* the BundledRadiance of a miss (587-596)
MissRay(rs) ==
    [src |-> "miss", radiance |-> MissRadiance(rs), alpha |-> MissAlpha(rs),
     pathPixelWeight |-> rs.pathPixelWeight]

\* the classification loop reaches the RayState
OneClassify ==
    /\ onePc = "classify"
    /\ LET c == ClassifyRay(oneRay, aovSchemaEmpty) IN
       oneOut' = [sorted |-> c.sorted, toFree |-> c.toFree, rad |-> c.rad, aov |-> c.aov,
                  lightLookups |-> 0]
    /\ onePc' = IF oneRay.hit = "miss" THEN "miss" ELSE "done"
    /\ UNCHANGED <<keyVars, tlsVars, envVars, rayVars, occlVars, xpuVars, oneRay, aovSchemaEmpty,
                   lightSampleCount, lightCount, parVars>>

\* the miss loop reaches the RayState and puts it in the release list
OneMiss ==
    /\ onePc = "miss"
    /\ oneOut' = [oneOut EXCEPT !.rad = Append(@, MissRay(oneRay)),
                                !.aov = @ \o MissAovCalls(oneRay, aovSchemaEmpty),
                                !.lightLookups = @ + VisibleLightLookups(oneRay),
                                !.toFree = @ + 1]
    /\ onePc' = "done"
    /\ UNCHANGED <<keyVars, tlsVars, envVars, rayVars, occlVars, xpuVars, oneRay, aovSchemaEmpty,
                   lightSampleCount, lightCount, parVars>>

\* ================================ several workers running rayBundleHandler
\* Each worker has its own thread-local state: arena, entry array, release
\* list.  The RayStates come from one pool; the batches are disjoint.
\* Cancellation is not requested in this part.
ParWorkers == {1, 2}

\* pool index of RayState i of the batch of worker w
PoolIdx(w, i) == (w - 1) * MaxParRays + i

OwnPool(w) == {PoolIdx(w, i) : i \in 1..MaxParRays}

Pool == UNION {OwnPool(w) : w \in ParWorkers}

\* sortedEntry.mRsIdx = rayStates[i] - baseRayState, for the batch of worker w
ToPool(w, ents) == [k \in 1..Len(ents) |-> [ents[k] EXCEPT !.mRsIdx = PoolIdx(w, @)]]

\* The entry array of a worker when nothing was written to it: whatever an
\* earlier batch left in the arena, with indices anywhere in the pool.
ParStaleEntries(n) ==
    [1..n -> [mSortKey : {0, 1}, mRsIdx : Pool, mMaterial : {0}]]

\* numMisses as computed at 498-505 from the entry array mem
ParNumMisses(mem, numSortedEntries) ==
    IF mem[1].mSortKey = 0 THEN SpanEnd(mem, 2, numSortedEntries + 1, 0) - 1 ELSE 0

\* pbrTls->addRadianceQueueEntries / shadeQueue->addEntries: the entries are
\* added to the shared queue as one step
AppendEntries(q, es) == q \o es

\* intersection, volume pass, classification (with its radiance-queue appends
\* for null-material hits inside a volume) and sort, for worker w
ParClassify(w) ==
    /\ par[w].pc = "start"
    /\ LET c == ClassifyLoop(par[w].batch, 1,
                    [sorted |-> <<>>, maxKey |-> 0, toFree |-> <<>>, rad |-> <<>>])
       IN /\ \E srt \in SmartSort32(ToPool(w, c.sorted)) :
                par' = [par EXCEPT ![w].pc = "misses",
                                   ![w].sorted = srt,
                                   ![w].toFree = [k \in 1..Len(c.toFree) |-> PoolIdx(w, c.toFree[k])]]
          /\ radianceQueue' = AppendEntries(radianceQueue,
                 [k \in 1..Len(c.rad) |->
                     [rs |-> PoolIdx(w, c.rad[k].rs), src |-> "nomat", worker |-> w]])
    /\ UNCHANGED <<keyVars, tlsVars, cancelled, rayVars, occlVars, xpuVars, oneVars, parShadeQueues>>

\* the miss run of worker w on the entry array mem (498-668)
ParMissRun(w, mem) ==
    LET n == ParNumMisses(mem, Len(par[w].sorted))
    IN /\ par' = [par EXCEPT ![w].pc = "free",
                             ![w].numMisses = n,
                             ![w].toFree = @ \o [i \in 1..n |-> mem[i].mRsIdx]]
       /\ radianceQueue' = AppendEntries(radianceQueue,
              [i \in 1..n |-> [rs |-> mem[i].mRsIdx, src |-> "miss", worker |-> w]])

ParMisses(w) ==
    /\ par[w].pc = "misses"
    /\ IF Len(par[w].sorted) > 0
       THEN ParMissRun(w, par[w].sorted)
       ELSE \E mem \in ParStaleEntries(Len(par[w].batch)) : ParMissRun(w, mem)
    /\ UNCHANGED <<keyVars, tlsVars, cancelled, rayVars, occlVars, xpuVars, oneVars, parShadeQueues>>

\* pbrTls->freeRayStates(numRayStatesToFree, rayStatesToFree) of worker w
ParFree(w) ==
    /\ par[w].pc = "free"
    /\ par' = [par EXCEPT ![w].pc = "shade",
                          ![w].freed = par[w].toFree,
                          ![w].curr = par[w].numMisses + 1]
    /\ UNCHANGED <<keyVars, tlsVars, envVars, rayVars, occlVars, xpuVars, oneVars, parShadeQueues>>

\* one iteration of the submission loop of worker w (682-718), or its exit
ParShade(w) ==
    /\ par[w].pc = "shade"
    /\ LET srt == par[w].sorted
           endPos == Len(srt) + 1
       IN IF par[w].curr = endPos THEN
              /\ par' = [par EXCEPT ![w].pc = "done"]
              /\ UNCHANGED parShadeQueues
          ELSE IF par[w].curr > endPos THEN
              /\ par' = [par EXCEPT ![w].pc = "overrun"]
              /\ UNCHANGED parShadeQueues
          ELSE
              LET key == srt[par[w].curr].mSortKey
                  spanEnd == SpanEnd(srt, par[w].curr + 1, endPos, key)
                  shadeEntries == [i \in 1..(spanEnd - par[w].curr) |->
                                      srt[par[w].curr + i - 1].mRsIdx]
                  mat == srt[par[w].curr].mMaterial
              IN /\ parShadeQueues' =
                        [parShadeQueues EXCEPT ![mat] = AppendEntries(@, <<shadeEntries>>)]
                 /\ par' = [par EXCEPT ![w].curr = spanEnd]
    /\ UNCHANGED <<keyVars, tlsVars, envVars, rayVars, occlVars, xpuVars, oneVars>>

\* ===================================================== occlusion handlers
Handlers == {"occl", "presence", "xpu"}

\* A BundledOcclRay, with what the scene holds for it:
\*   type      : mOcclTestType
\*   hasData   : mDataPtrHandle != nullHandle
\*   occluded  : the answer of the accelerator (CPU or GPU) for this ray
\*   falloffDist : light->getClearRadiusFalloffDistance() != 0.f
\*   inRange   : mMaxT < light->getClearRadius() + light->getClearRadiusFalloffDistance()
\* The light is read from the side data, and only for an occluded STANDARD ray,
\* so the two light fields are FALSE for every other ray.
OcclRayKinds ==
    {r \in [type : {"STANDARD"}, hasData : BOOLEAN, occluded : BOOLEAN,
            falloffDist : BOOLEAN, inRange : BOOLEAN] :
        (r.falloffDist \/ r.inRange) => (r.hasData /\ r.occluded)}
    \cup [type : {"FORCE_NOT_OCCLUDED"}, hasData : BOOLEAN, occluded : BOOLEAN,
          falloffDist : {FALSE}, inRange : {FALSE}]

\* occlRay.mRadiance of the ray with id id when the handler receives it
\* (channel value, in hundredths)
OrigRadiance(id) == 100 * id

\* getTransmittance(pbrTls, occlRay), in tenths
GetTransmittance(id) == IF id % 2 = 1 THEN 10 ELSE 5

\* occlRay.mRadiance * tr
Attenuated(id) == (OrigRadiance(id) * GetTransmittance(id)) \div 10

\* calculateShadowFalloff(light, occlRay.mMaxT, tr * occlRay.mRadiance): a
\* weight strictly between 0 and 1 applied to the attenuated radiance
CalculateShadowFalloff(x) == x \div 2

\* presence values returned by accumulateRayPresence, in tenths
PresenceTenths == {0, 4, 10}

\* the CPU release sequence without the cryptomatte release
CpuReleasesNoCrypto(ray) ==
    (IF ray.hasData THEN <<"freeList">> ELSE <<>>)
    \o <<"releaseDeepData">>

\* The release calls at the end of an iteration of the CPU resolvers
\* (RayHandlers.cc 133-139 and 174-180).
CpuReleases(ray) ==
    (IF ray.hasData THEN <<"freeList">> ELSE <<>>)
    \o <<"releaseDeepData", "releaseCryptomatteData">>

\* the GPU release sequence without the freeList of the side data
XpuReleasesNoFreeList(ray) == <<"releaseDeepData">>

\* The release calls at the end of an iteration of the GPU resolver
\* (XPURayHandlers.cc 170-175).
XpuReleases(ray) ==
    (IF ray.hasData THEN <<"freeList">> ELSE <<>>)
    \o <<"releaseDeepData">>

\* the presence release sequence without the freeList of the side data
PresenceReleasesNoFreeList(ray) == <<"releaseCryptomatteData">>

\* The release calls at the end of an iteration of the presence resolver
\* (RayHandlers.cc 288-290).
PresenceReleases(ray) == <<"freeList", "releaseCryptomatteData">>

\* the CPU iteration with the shadowing switch left out of the unoccluded test
AreSingleRaysOccludedRayIgnoringSwitch(id, ray, dis, lpe) ==
    LET isOccluded == ray.occluded
        base == [ray |-> id, by |-> "areSingleRaysOccluded", tests |-> 1,
                 rel |-> CpuReleases(ray)]
    IN IF ~isOccluded THEN
           base @@ [lookups |-> <<ray.hasData>>,
                    rad |-> <<[ray |-> id, kind |-> "unoccluded",
                              radiance |-> Attenuated(id)]>>,
                    acct |-> IF ray.hasData
                             THEN <<"lightAovs:unoccluded:tr", "visibilityAovs">>
                             ELSE <<>>]
       ELSE IF ray.hasData THEN
           base @@ [lookups |-> <<ray.hasData, TRUE>>,
                    rad |-> IF ray.falloffDist /\ ray.inRange
                            THEN <<[ray |-> id, kind |-> "falloff",
                                    radiance |-> CalculateShadowFalloff(Attenuated(id))]>>
                            ELSE <<>>,
                    acct |-> <<"visibilityAovsOccluded">>
                             \o (IF lpe THEN <<"lightAovs:unoccluded:null">> ELSE <<>>)]
       ELSE
           base @@ [lookups |-> <<ray.hasData>>, rad |-> <<>>, acct |-> <<>>]

\* the CPU iteration without the falloff contribution of an occluded ray
AreSingleRaysOccludedRayNoFalloff(id, ray, dis, lpe) ==
    LET isOccluded == ray.occluded
        base == [ray |-> id, by |-> "areSingleRaysOccluded", tests |-> 1,
                 rel |-> CpuReleases(ray)]
    IN IF ~isOccluded \/ dis THEN
           base @@ [lookups |-> <<ray.hasData>>,
                    rad |-> <<[ray |-> id, kind |-> "unoccluded",
                              radiance |-> Attenuated(id)]>>,
                    acct |-> IF ray.hasData
                             THEN <<"lightAovs:unoccluded:tr", "visibilityAovs">>
                             ELSE <<>>]
       ELSE IF ray.hasData THEN
           base @@ [lookups |-> <<ray.hasData, TRUE>>,
                    rad |-> <<>>,
                    acct |-> <<"visibilityAovsOccluded">>
                             \o (IF lpe THEN <<"lightAovs:unoccluded:null">> ELSE <<>>)]
       ELSE
           base @@ [lookups |-> <<ray.hasData>>, rad |-> <<>>, acct |-> <<>>]

\* One iteration of the loop of areSingleRaysOccluded, for the ray with id id.
\*   lookups : the handles given to getListItem (TRUE = a non-null handle)
\*   tests   : number of accelerator occlusion tests issued for the ray
\*   rad     : the BundledRadiance entries written to results
\*   acct    : the AOV / LPE accounting calls
\*   rel     : the release calls
AreSingleRaysOccludedRay(id, ray, dis, lpe) ==
    LET isOccluded == ray.occluded
        base == [ray |-> id, by |-> "areSingleRaysOccluded", tests |-> 1,
                 rel |-> CpuReleases(ray)]
    IN IF ~isOccluded \/ dis THEN
           base @@ [lookups |-> <<ray.hasData>>,
                    rad |-> <<[ray |-> id, kind |-> "unoccluded",
                              radiance |-> Attenuated(id)]>>,
                    acct |-> IF ray.hasData
                             THEN <<"lightAovs:unoccluded:tr", "visibilityAovs">>
                             ELSE <<>>]
       ELSE IF ray.hasData THEN
           base @@ [lookups |-> <<ray.hasData, TRUE>>,
                    rad |-> IF ray.falloffDist /\ ray.inRange
                            THEN <<[ray |-> id, kind |-> "falloff",
                                    radiance |-> CalculateShadowFalloff(Attenuated(id))]>>
                            ELSE <<>>,
                    acct |-> <<"visibilityAovsOccluded">>
                             \o (IF lpe THEN <<"lightAovs:unoccluded:null">> ELSE <<>>)]
       ELSE
           base @@ [lookups |-> <<ray.hasData>>, rad |-> <<>>, acct |-> <<>>]

\* the forced iteration made to depend on the occlusion answer
ForceSingleRaysUnoccludedRayIfVisible(id, ray) ==
    [ray |-> id, by |-> "forceSingleRaysUnoccluded", tests |-> 0, lookups |-> <<>>,
     rad |-> IF ray.occluded THEN <<>>
             ELSE <<[ray |-> id, kind |-> "forced", radiance |-> Attenuated(id)]>>,
     acct |-> IF ray.hasData THEN <<"lightAovs:none:tr">> ELSE <<>>,
     rel |-> CpuReleases(ray)]

\* One iteration of the loop of forceSingleRaysUnoccluded.
ForceSingleRaysUnoccludedRay(id, ray) ==
    [ray |-> id, by |-> "forceSingleRaysUnoccluded", tests |-> 0, lookups |-> <<>>,
     rad |-> <<[ray |-> id, kind |-> "forced",
                              radiance |-> Attenuated(id)]>>,
     acct |-> IF ray.hasData THEN <<"lightAovs:none:tr">> ELSE <<>>,
     rel |-> CpuReleases(ray)]

\* the GPU iteration with the shadowing switch left out of the unoccluded test
XpuRayIgnoringShadowSwitch(id, ray, isOccluded, dis, lpe) ==
    LET base == [ray |-> id, by |-> "computeXPUOcclusionQueriesOnGPU", tests |-> 1,
                 rel |-> XpuReleases(ray)]
    IN IF ray.type = "FORCE_NOT_OCCLUDED" THEN
           base @@ [lookups |-> <<>>,
                    rad |-> <<[ray |-> id, kind |-> "forced",
                              radiance |-> Attenuated(id)]>>,
                    acct |-> IF ray.hasData THEN <<"lightAovs:none:tr">> ELSE <<>>]
       ELSE IF ~isOccluded THEN
           base @@ [lookups |-> <<>>,
                    rad |-> <<[ray |-> id, kind |-> "unoccluded",
                              radiance |-> Attenuated(id)]>>,
                    acct |-> IF ray.hasData
                             THEN <<"lightAovs:unoccluded:tr", "visibilityAovs">>
                             ELSE <<>>]
       ELSE IF ray.hasData THEN
           base @@ [lookups |-> <<TRUE>>,
                    rad |-> IF ray.falloffDist /\ ray.inRange
                            THEN <<[ray |-> id, kind |-> "falloff",
                                    radiance |-> CalculateShadowFalloff(Attenuated(id))]>>
                            ELSE <<>>,
                    acct |-> <<"visibilityAovsOccluded">>
                             \o (IF lpe THEN <<"lightAovs:unoccluded:null">> ELSE <<>>)]
       ELSE
           base @@ [lookups |-> <<>>, rad |-> <<>>, acct |-> <<>>]

\* the GPU iteration with the output buffer consulted before the test type
XpuRayBufferFirst(id, ray, isOccluded, dis, lpe) ==
    LET base == [ray |-> id, by |-> "computeXPUOcclusionQueriesOnGPU", tests |-> 1,
                 rel |-> XpuReleases(ray)]
    IN IF isOccluded /\ ~dis THEN
           IF ray.hasData THEN
               base @@ [lookups |-> <<TRUE>>,
                        rad |-> IF ray.falloffDist /\ ray.inRange
                                THEN <<[ray |-> id, kind |-> "falloff",
                                        radiance |-> CalculateShadowFalloff(Attenuated(id))]>>
                                ELSE <<>>,
                        acct |-> <<"visibilityAovsOccluded">>
                                 \o (IF lpe THEN <<"lightAovs:unoccluded:null">> ELSE <<>>)]
           ELSE
               base @@ [lookups |-> <<>>, rad |-> <<>>, acct |-> <<>>]
       ELSE IF ray.type = "FORCE_NOT_OCCLUDED" THEN
           base @@ [lookups |-> <<>>,
                    rad |-> <<[ray |-> id, kind |-> "forced",
                              radiance |-> Attenuated(id)]>>,
                    acct |-> IF ray.hasData THEN <<"lightAovs:none:tr">> ELSE <<>>]
       ELSE
           base @@ [lookups |-> <<>>,
                    rad |-> <<[ray |-> id, kind |-> "unoccluded",
                              radiance |-> Attenuated(id)]>>,
                    acct |-> IF ray.hasData
                             THEN <<"lightAovs:unoccluded:tr", "visibilityAovs">>
                             ELSE <<>>]

\* the GPU iteration with the occluded accounting skipped when a falloff
\* contribution is produced
XpuRayAccountsOnlyWithoutRadiance(id, ray, isOccluded, dis, lpe) ==
    LET base == [ray |-> id, by |-> "computeXPUOcclusionQueriesOnGPU", tests |-> 1,
                 rel |-> XpuReleases(ray)]
    IN IF ray.type = "FORCE_NOT_OCCLUDED" THEN
           base @@ [lookups |-> <<>>,
                    rad |-> <<[ray |-> id, kind |-> "forced",
                              radiance |-> Attenuated(id)]>>,
                    acct |-> IF ray.hasData THEN <<"lightAovs:none:tr">> ELSE <<>>]
       ELSE IF ~isOccluded \/ dis THEN
           base @@ [lookups |-> <<>>,
                    rad |-> <<[ray |-> id, kind |-> "unoccluded",
                              radiance |-> Attenuated(id)]>>,
                    acct |-> IF ray.hasData
                             THEN <<"lightAovs:unoccluded:tr", "visibilityAovs">>
                             ELSE <<>>]
       ELSE IF ray.hasData THEN
           IF ray.falloffDist /\ ray.inRange
           THEN base @@ [lookups |-> <<TRUE>>,
                         rad |-> <<[ray |-> id, kind |-> "falloff",
                                    radiance |-> CalculateShadowFalloff(Attenuated(id))]>>,
                         acct |-> <<>>]
           ELSE base @@ [lookups |-> <<TRUE>>, rad |-> <<>>,
                         acct |-> <<"visibilityAovsOccluded">>
                                  \o (IF lpe THEN <<"lightAovs:unoccluded:null">> ELSE <<>>)]
       ELSE
           base @@ [lookups |-> <<>>, rad |-> <<>>, acct |-> <<>>]

\* One iteration of the loop of computeXPUOcclusionQueriesOnGPU; isOccluded is
\* the slot of the ray in the GPU output buffer.  Every ray of the batch is in
\* the array given to accel->occluded (line 58), hence tests is 1 for each.
XpuRay(id, ray, isOccluded, dis, lpe) ==
    LET base == [ray |-> id, by |-> "computeXPUOcclusionQueriesOnGPU", tests |-> 1,
                 rel |-> XpuReleases(ray)]
    IN IF ray.type = "FORCE_NOT_OCCLUDED" THEN
           base @@ [lookups |-> <<>>,
                    rad |-> <<[ray |-> id, kind |-> "forced",
                              radiance |-> Attenuated(id)]>>,
                    acct |-> IF ray.hasData THEN <<"lightAovs:none:tr">> ELSE <<>>]
       ELSE IF ~isOccluded \/ dis THEN
           base @@ [lookups |-> <<>>,
                    rad |-> <<[ray |-> id, kind |-> "unoccluded",
                              radiance |-> Attenuated(id)]>>,
                    acct |-> IF ray.hasData
                             THEN <<"lightAovs:unoccluded:tr", "visibilityAovs">>
                             ELSE <<>>]
       ELSE IF ray.hasData THEN
           base @@ [lookups |-> <<TRUE>>,
                    rad |-> IF ray.falloffDist /\ ray.inRange
                            THEN <<[ray |-> id, kind |-> "falloff",
                                    radiance |-> CalculateShadowFalloff(Attenuated(id))]>>
                            ELSE <<>>,
                    acct |-> <<"visibilityAovsOccluded">>
                             \o (IF lpe THEN <<"lightAovs:unoccluded:null">> ELSE <<>>)]
       ELSE
           base @@ [lookups |-> <<>>, rad |-> <<>>, acct |-> <<>>]

\* the presence iteration with the presence scaling applied although
\* shadowing is disabled
PresenceRayAlwaysScaled(id, ray, presence, dis) ==
    [ray |-> id, by |-> "computePresenceShadowsQueriesBundled", tests |-> 0,
     lookups |-> <<ray.hasData>>, presence |-> presence,
     rad |-> IF presence = 0
             THEN <<[ray |-> id, kind |-> "attenuated", radiance |-> Attenuated(id)]>>
             ELSE <<[ray |-> id, kind |-> "presenceScaled",
                     radiance |-> (Attenuated(id) * (10 - presence)) \div 10]>>,
     occlusionValue |-> ((10 - presence) * GetTransmittance(id)) \div 10,
     acct |-> <<"lightAovs:unoccluded:occlusionValue", "visibilityAovs">>,
     rel |-> PresenceReleases(ray)]

\* One iteration of the loop of computePresenceShadowsQueriesBundled; presence
\* is the value accumulated for the ray, in tenths.
\*   occlusionValue : (1 - presence) * tr, the value given to accumLightAovs and
\*                    (reduced) to accumVisibilityAovs
PresenceRay(id, ray, presence, dis) ==
    [ray |-> id, by |-> "computePresenceShadowsQueriesBundled", tests |-> 0,
     lookups |-> <<ray.hasData>>, presence |-> presence,
     rad |-> IF presence = 0 \/ dis
             THEN <<[ray |-> id, kind |-> "attenuated", radiance |-> Attenuated(id)]>>
             ELSE <<[ray |-> id, kind |-> "presenceScaled",
                     radiance |-> (Attenuated(id) * (10 - presence)) \div 10]>>,
     occlusionValue |-> ((10 - presence) * GetTransmittance(id)) \div 10,
     acct |-> <<"lightAovs:unoccluded:occlusionValue", "visibilityAovs">>,
     rel |-> PresenceReleases(ray)]

\* the results buffer after a resolver: the entries written, in order
RECURSIVE Filled(_)
Filled(outs) == IF outs = <<>> THEN <<>> ELSE Head(outs).rad \o Filled(Tail(outs))

\* the entries left in the order of the batch
PartitionsNone(rays) == {[i \in 1..Len(rays) |-> i]}

\* std::partition(entries, entries + numEntries, isStandard): the STANDARD rays
\* first, in an order the library chooses.
Partitions(rays) ==
    {p \in [1..Len(rays) -> 1..Len(rays)] :
        /\ \A i, j \in 1..Len(rays) : i # j => p[i] # p[j]
        /\ \A i, j \in 1..Len(rays) :
              (rays[p[i]].type # "STANDARD" /\ rays[p[j]].type = "STANDARD") => j < i}

\* every entry counted as a STANDARD one
NumStandardAll(rays) == Len(rays)

\* numStandardEntries = partitionIt - entries
NumStandard(rays) == Cardinality({i \in 1..Len(rays) : rays[i].type = "STANDARD"})

\* computeOcclusionQueriesBundled on the partitioned entries ents (ray ids).
ComputeOcclusionQueriesBundled(rays, ents, dis, lpe) ==
    LET numStandardEntries == NumStandard(rays)
        numNoOpEntries == Len(ents) - numStandardEntries
    IN [i \in 1..numStandardEntries |->
            AreSingleRaysOccludedRay(ents[i], rays[ents[i]], dis, lpe)]
       \o [i \in 1..numNoOpEntries |->
            ForceSingleRaysUnoccludedRay(ents[numStandardEntries + i],
                                         rays[ents[numStandardEntries + i]])]

\* a slot of the results buffer that no resolver wrote
Unwritten == [ray |-> 0, kind |-> "unwritten", radiance |-> 0]

\* the forced results placed after one slot for each STANDARD ray
ForcedBaseStandard(numRadiancesFilled, numStandardEntries) == numStandardEntries

\* results += numRadiancesFilled (line 211): the slot forceSingleRaysUnoccluded
\* takes for its results[0]
ForcedBase(numRadiancesFilled, numStandardEntries) == numRadiancesFilled

\* The first totalRadiancesFilled slots of the results buffer after
\* computeOcclusionQueriesBundled: areSingleRaysOccluded writes
\* results[numRadiancesFilled++] from slot 0 on, forceSingleRaysUnoccluded
\* writes results[i] from the slot of ForcedBase on.  outs are the iterations
\* of the two loops, the first numStandardEntries by areSingleRaysOccluded.
CpuResults(outs, numStandardEntries) ==
    LET standard == Filled(SubSeq(outs, 1, numStandardEntries))
        forced == Filled(SubSeq(outs, numStandardEntries + 1, Len(outs)))
        base == ForcedBase(Len(standard), numStandardEntries)
    IN [j \in 1..(Len(standard) + Len(forced)) |->
           IF j - base \in 1..Len(forced) THEN forced[j - base]
           ELSE IF j <= Len(standard) THEN standard[j]
           ELSE Unwritten]

\* threadsUsingGPU++ and threadsUsingGPU-- on the shared std::atomic<int>
IncThreadsUsingGPU(c) == c + 1

\* a decrement that is lost
DecThreadsUsingGPULost(c) == c

DecThreadsUsingGPU(c) == c - 1

\* No handler is between its resolver and its return.
NoneRunning == \A h \in Handlers : hpc[h] # "resolved"

\* A batch comes from the occlusion queue (given to the CPU handler and to the
\* GPU handler) or from the presence-shadows queue, never from both.
FromQueue(h) ==
    IF h = "presence"
    THEN hpc["occl"] \in {"off", "idle"} /\ hpc["xpu"] \in {"off", "idle"}
    ELSE hpc["presence"] \in {"off", "idle"}

\* occlusionQueryBundleHandler up to the cancellation check (lines 734-739)
OcclResolve ==
    /\ hpc["occl"] = "idle"
    /\ NoneRunning
    /\ FromQueue("occl")
    /\ \E p \in Partitions(occlRays) :
          LET outs == ComputeOcclusionQueriesBundled(occlRays, p, disableShadowing, lpeUnoccluded)
          IN /\ entries' = [entries EXCEPT !["occl"] = p]
             /\ outcome' = [outcome EXCEPT !["occl"] = outs]
             /\ results' = [results EXCEPT !["occl"] = CpuResults(outs, NumStandard(occlRays))]
    /\ hpc' = [hpc EXCEPT !["occl"] = "resolved"]
    /\ scopedMem' = arenaPtr
    /\ arenaPtr' = AllocArray(arenaPtr, Len(occlRays))
    /\ UNCHANGED <<keyVars, memBookmark, calls, envVars, rayVars, occlRays, disableShadowing, lpeUnoccluded, xpuVars, oneVars, parVars>>

\* presenceShadowsQueryBundleHandler up to the cancellation check (lines 760-765).
\* Every ray of this queue carries its side data ("we always have the data block here").
PresenceResolve ==
    /\ hpc["presence"] = "idle"
    /\ NoneRunning
    /\ FromQueue("presence")
    /\ \A i \in 1..Len(occlRays) : occlRays[i].hasData
    /\ \E pres \in [1..Len(occlRays) -> PresenceTenths] :
          LET outs == [i \in 1..Len(occlRays) |->
                          PresenceRay(i, occlRays[i], pres[i], disableShadowing)]
          IN /\ entries' = [entries EXCEPT !["presence"] = [i \in 1..Len(occlRays) |-> i]]
             /\ outcome' = [outcome EXCEPT !["presence"] = outs]
             /\ results' = [results EXCEPT !["presence"] = Filled(outs)]
    /\ hpc' = [hpc EXCEPT !["presence"] = "resolved"]
    /\ scopedMem' = arenaPtr
    /\ arenaPtr' = AllocArray(arenaPtr, Len(occlRays))
    /\ UNCHANGED <<keyVars, memBookmark, calls, envVars, rayVars, occlRays, disableShadowing, lpeUnoccluded, xpuVars, oneVars, parVars>>

\* xpuOcclusionQueryBundleHandler up to the cancellation check (lines 208-218):
\* the counter is incremented, the GPU call runs on the whole batch, the
\* counter is decremented, then the results are built.
XpuResolve ==
    /\ hpc["xpu"] = "idle"
    /\ NoneRunning
    /\ FromQueue("xpu")
    /\ LET isOccluded == [i \in 1..Len(occlRays) |-> occlRays[i].occluded]
           outs == [i \in 1..Len(occlRays) |->
                       XpuRay(i, occlRays[i], isOccluded[i], disableShadowing, lpeUnoccluded)]
       IN /\ entries' = [entries EXCEPT !["xpu"] = [i \in 1..Len(occlRays) |-> i]]
          /\ outcome' = [outcome EXCEPT !["xpu"] = outs]
          /\ results' = [results EXCEPT !["xpu"] = Filled(outs)]
    /\ threadsUsingGPU' = DecThreadsUsingGPU(IncThreadsUsingGPU(threadsUsingGPU))
    /\ hpc' = [hpc EXCEPT !["xpu"] = "resolved"]
    /\ scopedMem' = arenaPtr
    /\ arenaPtr' = AllocArray(arenaPtr, Len(occlRays))
    /\ UNCHANGED <<keyVars, memBookmark, calls, envVars, rayVars, oneVars, parVars, occlRays, disableShadowing, lpeUnoccluded, wpc>>

\* the end of an occlusion handler with the append placed before the check
PollAndAppendAfterAppend(h) ==
    /\ hpc[h] = "resolved"
    /\ hpc' = [hpc EXCEPT ![h] = IF cancelled THEN "cancelled" ELSE "done"]
    /\ radianceQueue' = radianceQueue \o [i \in 1..Len(results[h]) |->
                                            results[h][i] @@ [src |-> h]]
    /\ arenaPtr' = ScopedMem(scopedMem, arenaPtr, hpc'[h] \in {"done", "cancelled"})
    /\ UNCHANGED <<keyVars, scopedMem, memBookmark, calls, cancelled, rayVars, occlRays,
                   disableShadowing, lpeUnoccluded, entries, results, outcome, xpuVars,
                   oneVars, parVars>>

\* CHECK_CANCELLATION(pbrTls, return); addRadianceQueueEntries(numRadiancesFilled, results)
\* at the end of the occlusion handler h.
PollAndAppend(h) ==
    /\ hpc[h] = "resolved"
    /\ IF cancelled
       THEN /\ hpc' = [hpc EXCEPT ![h] = "cancelled"]
            /\ UNCHANGED radianceQueue
       ELSE /\ hpc' = [hpc EXCEPT ![h] = "done"]
            /\ radianceQueue' = radianceQueue \o [i \in 1..Len(results[h]) |->
                                                    results[h][i] @@ [src |-> h]]
    /\ arenaPtr' = ScopedMem(scopedMem, arenaPtr, hpc'[h] \in {"done", "cancelled"})
    /\ UNCHANGED <<keyVars, scopedMem, memBookmark, calls, cancelled, rayVars, occlRays,
                   disableShadowing, lpeUnoccluded, entries, results, outcome, xpuVars,
                   oneVars, parVars>>

OcclFinish == PollAndAppend("occl")

PresenceFinish == PollAndAppend("presence")

XpuFinish == PollAndAppend("xpu")

\* ===================================== secondary sort key of a sub-batch
\* shadeEntries[i].mSortKey is a uint32_t.  Its value is kept as two 16-bit
\* halves, [hi, lo] standing for hi * 2^16 + lo.  geomID and primID of a ray
\* that hit geometry are not negative.
RECURSIVE BitAnd(_, _)
BitAnd(a, b) ==
    IF a = 0 \/ b = 0 THEN 0
    ELSE (a % 2) * (b % 2) + 2 * BitAnd(a \div 2, b \div 2)

RECURSIVE BitOr(_, _)
BitOr(a, b) ==
    IF a = 0 THEN b
    ELSE IF b = 0 THEN a
    ELSE (IF a % 2 = 1 \/ b % 2 = 1 THEN 1 ELSE 0) + 2 * BitOr(a \div 2, b \div 2)

\* the key with the geometry field shifted by 16 bits only
SecondarySortKeyShift16(geomID, primID) ==
    LET geomField == BitAnd(geomID, 4095)
        primField == BitAnd(primID, 1048575)
    IN [hi |-> BitOr(geomField % 65536, primField \div 65536),
        lo |-> BitOr(0, primField % 65536)]

\* line 705: ((ray.geomID & 0xfff) << 20) | (ray.primID & 0xfffff).
\* x << 20 moves x to bits 20..31: in the upper half it is x << 4, cut to 16
\* bits by the conversion to uint32_t, and the lower half is 0.
SecondarySortKey(geomID, primID) ==
    LET geomField == BitAnd(geomID, 4095)
        primField == BitAnd(primID, 1048575)
    IN [hi |-> BitOr((geomField * 16) % 65536, primField \div 65536),
        lo |-> BitOr(0, primField % 65536)]

\* geometry and primitive ids around the widths of the two fields
GeomIDs == {0, 1, 2048, 4095, 4096, 4097}

PrimIDs == {0, 1, 65536, 1048575, 1048576, 1048577}

\* the loop of lines 697-706 for the two rays
ComputeShadeKeys ==
    /\ shadeRays # <<>>
    /\ shadeKeys = <<>>
    /\ shadeKeys' = [i \in 1..Len(shadeRays) |->
                        SecondarySortKey(shadeRays[i].geomID, shadeRays[i].primID)]
    /\ UNCHANGED <<envVars, rayVars, occlVars, xpuVars, oneVars, parVars, tlsVars, shadeRays>>

\* ------------------------------------------------- idle values of a part
RayIdle ==
    /\ rayStates = <<>>
    /\ pc = "idle"
    /\ stagesRun = <<>>
    /\ sortedEntries = <<>>
    /\ maxSortKey = 0
    /\ numMisses = 0
    /\ rayStatesToFree = <<>>
    /\ freed = <<>>
    /\ shadeQueues = [m \in 1..MaxMat |-> <<>>]
    /\ currEntry = 1

OcclIdle ==
    /\ occlRays = <<>>
    /\ disableShadowing = FALSE
    /\ lpeUnoccluded = FALSE
    /\ hpc = [h \in Handlers |-> "off"]
    /\ entries = [h \in Handlers |-> <<>>]
    /\ results = [h \in Handlers |-> <<>>]
    /\ outcome = [h \in Handlers |-> <<>>]

XpuIdle ==
    /\ threadsUsingGPU = 0
    /\ wpc = [w \in 1..NumWorkers |-> "off"]

OneIdle ==
    /\ oneRay = [hit |-> "none"]
    /\ aovSchemaEmpty = TRUE
    /\ lightSampleCount = 0
    /\ lightCount = 0
    /\ onePc = "off"
    /\ oneOut = [sorted |-> <<>>, toFree |-> 0, rad |-> <<>>, aov |-> <<>>,
                 lightLookups |-> 0]

\* the worker is outside every handler: nothing of the arena is in use
TlsIdle ==
    /\ arenaPtr = 0
    /\ scopedMem = 0
    /\ memBookmark = 0
    /\ calls = <<>>

\* no sub-batch is being built
KeyIdle ==
    /\ shadeRays = <<>>
    /\ shadeKeys = <<>>

ParIdle ==
    /\ par = [w \in ParWorkers |->
                 [pc |-> "off", batch |-> <<>>, sorted |-> <<>>, numMisses |-> 0,
                  toFree |-> <<>>, freed |-> <<>>, curr |-> 1]]
    /\ parShadeQueues = [m \in 1..MaxMat |-> <<>>]

\* ----------------------------------------------------------- SpecRay
InitRay ==
    /\ cancelled = FALSE
    /\ radianceQueue = <<>>
    /\ rayStates \in SeqsUpTo(RayOutcomes, MaxRays)
    /\ pc = "start"
    /\ stagesRun = <<>>
    /\ sortedEntries = <<>>
    /\ maxSortKey = 0
    /\ numMisses = 0
    /\ rayStatesToFree = <<>>
    /\ freed = <<>>
    /\ shadeQueues = [m \in 1..MaxMat |-> <<>>]
    /\ currEntry = 1
    /\ OcclIdle
    /\ XpuIdle
    /\ OneIdle
    /\ ParIdle
    /\ TlsIdle
    /\ KeyIdle

NextRay ==
    \/ RequestCancel
    \/ Intersect
    \/ VolumePass
    \/ PollAfterVolume
    \/ Classify
    \/ Sort
    \/ Misses
    \/ PollAfterMisses
    \/ FreeRayStates
    \/ Shade
    \/ PollAfterShade

SpecRay == InitRay /\ [][NextRay]_vars

\* ----------------------------------------------------------- SpecOccl
InitOccl ==
    /\ cancelled = FALSE
    /\ radianceQueue = <<>>
    /\ RayIdle
    /\ occlRays \in SeqsUpTo(OcclRayKinds, MaxOcclRays)
    /\ disableShadowing \in BOOLEAN
    /\ lpeUnoccluded \in BOOLEAN
    /\ hpc = [h \in Handlers |-> "idle"]
    /\ entries = [h \in Handlers |-> <<>>]
    /\ results = [h \in Handlers |-> <<>>]
    /\ outcome = [h \in Handlers |-> <<>>]
    /\ XpuIdle
    /\ OneIdle
    /\ ParIdle
    /\ TlsIdle
    /\ KeyIdle

NextOccl ==
    \/ RequestCancel
    \/ OcclResolve
    \/ OcclFinish
    \/ PresenceResolve
    \/ PresenceFinish
    \/ XpuResolve
    \/ XpuFinish

SpecOccl == InitOccl /\ [][NextOccl]_vars

\* the same handlers on the same batches, for the properties of the handle
\* releases and of the per-ray bookkeeping
SpecOcclHandles == InitOccl /\ [][NextOccl]_vars

\* ----------------------------------------------------------- SpecXPU
\* Worker w runs xpuOcclusionQueryBundleHandler on a batch of its own; only
\* the counter, the cancellation flag and the radiance queue are shared.
Workers == 1..NumWorkers

\* threadsUsingGPU++ ; the worker enters accel->occluded(...)
XpuEnter(w) ==
    /\ wpc[w] = "idle"
    /\ threadsUsingGPU' = IncThreadsUsingGPU(threadsUsingGPU)
    /\ wpc' = [wpc EXCEPT ![w] = "gpuCall"]
    /\ UNCHANGED <<keyVars, tlsVars, envVars, rayVars, oneVars, parVars, occlVars>>

\* accel->occluded(...) returns ; threadsUsingGPU-- ; the results are built
XpuLeave(w) ==
    /\ wpc[w] = "gpuCall"
    /\ threadsUsingGPU' = DecThreadsUsingGPU(threadsUsingGPU)
    /\ wpc' = [wpc EXCEPT ![w] = "resolved"]
    /\ UNCHANGED <<keyVars, tlsVars, envVars, rayVars, oneVars, parVars, occlVars>>

\* CHECK_CANCELLATION ; addRadianceQueueEntries ; return
XpuReturn(w) ==
    /\ wpc[w] = "resolved"
    /\ IF cancelled
       THEN /\ wpc' = [wpc EXCEPT ![w] = "cancelled"]
            /\ UNCHANGED radianceQueue
       ELSE /\ wpc' = [wpc EXCEPT ![w] = "done"]
            /\ radianceQueue' = Append(radianceQueue, [src |-> "xpu", worker |-> w])
    /\ UNCHANGED <<keyVars, tlsVars, cancelled, rayVars, oneVars, parVars, occlVars, threadsUsingGPU>>

InitXPU ==
    /\ cancelled = FALSE
    /\ radianceQueue = <<>>
    /\ RayIdle
    /\ OcclIdle
    /\ threadsUsingGPU = 0
    /\ wpc = [w \in Workers |-> "idle"]
    /\ OneIdle
    /\ ParIdle
    /\ TlsIdle
    /\ KeyIdle

NextXPU ==
    \/ RequestCancel
    \/ \E w \in Workers : XpuEnter(w)
    \/ \E w \in Workers : XpuLeave(w)
    \/ \E w \in Workers : XpuReturn(w)

SpecXPU == InitXPU /\ [][NextXPU]_vars

\* ----------------------------------------------------------- SpecOneRay
InitOneRay ==
    /\ cancelled = FALSE
    /\ radianceQueue = <<>>
    /\ RayIdle
    /\ OcclIdle
    /\ XpuIdle
    /\ oneRay \in OneRayStates
    /\ aovSchemaEmpty \in BOOLEAN
    /\ lightSampleCount \in {1, 2}
    /\ lightCount \in {0, 3}
    /\ onePc = "classify"
    /\ oneOut = [sorted |-> <<>>, toFree |-> 0, rad |-> <<>>, aov |-> <<>>,
                 lightLookups |-> 0]
    /\ ParIdle
    /\ TlsIdle
    /\ KeyIdle

NextOneRay ==
    \/ OneClassify
    \/ OneMiss

SpecOneRay == InitOneRay /\ [][NextOneRay]_vars

\* ----------------------------------------------------------- SpecPar
InitPar ==
    /\ cancelled = FALSE
    /\ radianceQueue = <<>>
    /\ RayIdle
    /\ OcclIdle
    /\ XpuIdle
    /\ OneIdle
    /\ \E b \in [ParWorkers -> SeqsUpTo(RayOutcomes, MaxParRays)] :
          par = [w \in ParWorkers |->
                    [pc |-> "start", batch |-> b[w], sorted |-> <<>>, numMisses |-> 0,
                     toFree |-> <<>>, freed |-> <<>>, curr |-> 1]]
    /\ parShadeQueues = [m \in 1..MaxMat |-> <<>>]
    /\ TlsIdle
    /\ KeyIdle

NextPar ==
    \/ \E w \in ParWorkers : ParClassify(w)
    \/ \E w \in ParWorkers : ParMisses(w)
    \/ \E w \in ParWorkers : ParFree(w)
    \/ \E w \in ParWorkers : ParShade(w)

SpecPar == InitPar /\ [][NextPar]_vars

\* ----------------------------------------------------------- Spec
\* A worker given a batch for any one of the handlers.
\* ----------------------------------------------------------- SpecSortKey
InitSortKey ==
    /\ cancelled = FALSE
    /\ radianceQueue = <<>>
    /\ RayIdle
    /\ OcclIdle
    /\ XpuIdle
    /\ OneIdle
    /\ ParIdle
    /\ TlsIdle
    /\ shadeRays \in [1..2 -> [geomID : GeomIDs, primID : PrimIDs]]
    /\ shadeKeys = <<>>

NextSortKey == ComputeShadeKeys

SpecSortKey == InitSortKey /\ [][NextSortKey]_vars

Init == InitRay \/ InitOccl \/ InitXPU \/ InitOneRay

Next == NextRay \/ NextOccl \/ NextXPU \/ NextOneRay

Spec == Init /\ [][Next]_vars

\* =================================================================== claims
\* ---- helpers of the claims
\* number of RayStates forwarded to shade queues
NumForwarded ==
    SeqSum([m \in 1..MaxMat |-> SeqSum([k \in 1..Len(shadeQueues[m]) |-> Len(shadeQueues[m][k])])])

\* RayState indices forwarded to shade queues
ForwardedSet ==
    UNION {UNION {Range(shadeQueues[m][k]) : k \in 1..Len(shadeQueues[m])} : m \in 1..MaxMat}

NoDuplicates(s) == \A i, j \in 1..Len(s) : i # j => s[i] # s[j]

HandlerFinished(h) == hpc[h] \in {"resolved", "done", "cancelled"}

\* number of release calls named call that handler h issued for ray id
ReleaseCount(h, id, call) ==
    SeqSum([k \in 1..Len(outcome[h]) |->
               IF outcome[h][k].ray = id THEN Count(outcome[h][k].rel, call) ELSE 0])

\* the outcome record of handler h for ray id (each ray has exactly one)
OutcomeOf(h, id) == CHOOSE o \in Range(outcome[h]) : o.ray = id

SameMultiset(a, b) == \A e \in Range(a) \cup Range(b) : Count(a, e) = Count(b, e)

RayIds == 1..Len(occlRays)

\* C1: on every exit of rayBundleHandler (normal return and cancellation
\* returns) the number of RayStates released through freeRayStates equals the
\* number submitted minus the number forwarded to shade queues.
C1_NoLeakOnAnyExit ==
    pc \in {"done", "cancelled"} => Len(freed) = Len(rayStates) - NumForwarded

\* C2: no RayState is both forwarded to a shade queue and put in the release
\* list, no RayState is in the release list more than once, a miss or a
\* null-material hit is only freed and a hit with a material is only forwarded.
C2_ForwardedXorFreedOnce ==
    /\ ForwardedSet \cap Range(rayStatesToFree) = {}
    /\ NoDuplicates(rayStatesToFree)
    /\ \A i \in Range(rayStatesToFree) :
          i \in 1..Len(rayStates) /\ rayStates[i].hit \in {"miss", "nomat"}
    /\ \A i \in ForwardedSet : rayStates[i].hit = "mat"

\* C3: in every resolver (CPU standard and forced, presence, GPU) each ray is
\* handled once and a non-null side-data handle is released with freeList
\* exactly once, whichever branch the ray takes.
C3_SideDataFreedOnce ==
    \A h \in Handlers : HandlerFinished(h) =>
        \A id \in RayIds :
            /\ Cardinality({k \in 1..Len(outcome[h]) : outcome[h][k].ray = id}) = 1
            /\ occlRays[id].hasData => ReleaseCount(h, id, "freeList") = 1

C3_Witness ==
    /\ HandlerFinished("occl") /\ HandlerFinished("xpu")
    /\ ~disableShadowing
    /\ \E id \in RayIds : /\ occlRays[id].type = "STANDARD"
                          /\ occlRays[id].occluded
                          /\ occlRays[id].hasData
                          /\ ReleaseCount("xpu", id, "freeList") = 1
    /\ \E id \in RayIds : occlRays[id].type = "FORCE_NOT_OCCLUDED" /\ occlRays[id].hasData

\* C4: in the CPU resolver every ray, whichever branch handles it, has its
\* side-data handle (when it has one), its deep-data handle and its
\* cryptomatte handle each released exactly once.
C4_CpuReleasesEachHandleOnce ==
    HandlerFinished("occl") =>
        \A id \in RayIds :
            /\ ReleaseCount("occl", id, "freeList") = (IF occlRays[id].hasData THEN 1 ELSE 0)
            /\ ReleaseCount("occl", id, "releaseDeepData") = 1
            /\ ReleaseCount("occl", id, "releaseCryptomatteData") = 1

C4_Witness ==
    /\ HandlerFinished("occl")
    /\ ~disableShadowing
    /\ \E id \in RayIds : /\ occlRays[id].type = "STANDARD"
                          /\ occlRays[id].occluded
                          /\ OutcomeOf("occl", id).rad = <<>>
    /\ \E id \in RayIds : occlRays[id].type = "FORCE_NOT_OCCLUDED" /\ ~occlRays[id].hasData

\* C5: for every ray of a batch the GPU resolver issues the same release calls
\* (side-data list, deep data, cryptomatte data) as the CPU resolver.
C5_GpuReleasesAsCpu ==
    (HandlerFinished("occl") /\ HandlerFinished("xpu")) =>
        \A id \in RayIds : OutcomeOf("xpu", id).rel = OutcomeOf("occl", id).rel

\* C6: given the same batch and the same occlusion answer for each ray, the GPU
\* resolver and the CPU resolver fill the same multiset of BundledRadiance
\* entries and issue the same AOV / LPE accounting calls for each ray.
C6_GpuDecidesAsCpu ==
    (HandlerFinished("occl") /\ HandlerFinished("xpu")) =>
        /\ SameMultiset(results["occl"], results["xpu"])
        /\ \A id \in RayIds : OutcomeOf("xpu", id).acct = OutcomeOf("occl", id).acct

C6_Witness ==
    /\ HandlerFinished("occl") /\ HandlerFinished("xpu")
    /\ disableShadowing
    /\ entries["occl"] # entries["xpu"]
    /\ \E id \in RayIds : /\ occlRays[id].type = "STANDARD"
                          /\ occlRays[id].occluded
                          /\ occlRays[id].hasData
    /\ Len(results["xpu"]) = Len(occlRays)

\* C7: the shared counter threadsUsingGPU equals the number of workers between
\* the increment and the decrement that bracket the GPU occluded() call, is
\* never negative, and is back at its initial value once every worker has
\* returned.
C7_CounterTracksWorkersInGpu ==
    /\ threadsUsingGPU = Cardinality({w \in Workers : wpc[w] = "gpuCall"})
    /\ threadsUsingGPU >= 0
    /\ (\A w \in Workers : wpc[w] \in {"done", "cancelled"}) => threadsUsingGPU = 0

C7_Witness ==
    /\ threadsUsingGPU >= 2
    /\ \E w \in Workers : wpc[w] \in {"done", "cancelled"}

\* C8 (as stated): when cancellation is set once the intersection pass is over,
\* the handler returns without running the volumetric pass.
C8_PolledAfterIntersection ==
    [][(pc = "volume" /\ cancelled) => pc' \in {"volume", "cancelled"}]_vars

PollPoints == {"pollVolume", "pollMisses", "pollShade"}

\* C8 (amended): the cancellation check is polled after the volumetric pass
\* (there is no check between the intersection pass and the volumetric pass),
\* after the miss radiances are queued and after each shade-queue submission;
\* when cancellation is set at one of these points the handler returns at once
\* and no later stage runs.
C8_CancellationPolls ==
    [][/\ (pc = "start" /\ pc' # pc) => pc' = "volume"
       /\ (pc = "volume" /\ pc' # pc) => pc' = "pollVolume"
       /\ (pc \in PollPoints /\ cancelled /\ pc' # pc) => pc' = "cancelled"
       /\ (pc = "cancelled") =>
             (pc' = "cancelled" /\ UNCHANGED <<stagesRun, radianceQueue, shadeQueues, freed>>)
       /\ (pc' = "cancelled") => UNCHANGED <<stagesRun, radianceQueue, shadeQueues, freed>>
       /\ (shadeQueues' # shadeQueues) => pc' = "pollShade"
       /\ (pc = "misses" /\ numMisses' > 0) => pc' = "pollMisses"]_vars

C8_Witness ==
    /\ pc = "cancelled"
    /\ stagesRun = <<"intersect", "volume">>

\* C9: entries already appended to the radiance queue or to a shade queue stay
\* there unchanged; once a handler has observed cancellation it appends
\* nothing more; an occlusion handler that observes cancellation after its
\* resolve step appends none of the radiances it computed.
C9_CancellationKeepsQueues ==
    [][/\ IsPrefix(radianceQueue, radianceQueue')
       /\ \A m \in 1..MaxMat : IsPrefix(shadeQueues[m], shadeQueues'[m])
       /\ (pc' = "cancelled") => UNCHANGED <<radianceQueue, shadeQueues>>
       /\ \A h \in Handlers : hpc'[h] = "cancelled" =>
             \A k \in 1..Len(radianceQueue') : radianceQueue'[k].src # h
       /\ \A w \in Workers : wpc'[w] = "cancelled" =>
             \A k \in 1..Len(radianceQueue') : radianceQueue'[k].worker # w]_vars

C9_Witness ==
    \/ /\ pc = "cancelled"
       /\ radianceQueue # <<>>
       /\ ForwardedSet # {}
    \/ /\ hpc["occl"] = "done"
       /\ hpc["xpu"] = "cancelled"
       /\ results["xpu"] # <<>>
       /\ radianceQueue # <<>>

\* C10: every miss entry has sort key 0 and every entry of a hit with a
\* material has its material id (>= 1) as sort key; after sorting the entry
\* array is ascending by key, the misses are exactly the leading run and every
\* material id forms one contiguous run.
NumMissRays == Cardinality({i \in 1..Len(rayStates) : rayStates[i].hit = "miss"})

C10_SortKeysAndRuns ==
    LET n == Len(sortedEntries)
        key(i) == sortedEntries[i].mSortKey
    IN /\ \A i \in 1..n :
             LET r == rayStates[sortedEntries[i].mRsIdx] IN
             /\ r.hit = "miss" => key(i) = 0
             /\ r.hit = "mat" => (key(i) >= 1 /\ key(i) = r.mat)
       /\ "sort" \in Range(stagesRun) =>
             /\ \A i, j \in 1..n : i < j => key(i) <= key(j)
             /\ \A i \in 1..n : (i <= NumMissRays) <=> (key(i) = 0)
             /\ \A i, j, k \in 1..n : (i < j /\ j < k /\ key(i) = key(k)) => key(j) = key(i)

C10_Witness ==
    /\ "sort" \in Range(stagesRun)
    /\ Len(sortedEntries) = 3
    /\ [i \in 1..3 |-> sortedEntries[i].mSortKey] = <<0, 1, 1>>
    /\ sortedEntries[1].mRsIdx = 2

\* C11: for the same entries the bucket-sort path and the comparison-sort
\* path give the same grouping: the same multiset of entries, ascending by
\* key, with the same entries in the run of every key; both are results the
\* handler accepts from smartSort32.
SameGrouping(a, b) ==
    /\ SameMultiset(a, b)
    /\ \A i, j \in 1..Len(a) : i < j => a[i].mSortKey <= a[j].mSortKey
    /\ \A i, j \in 1..Len(b) : i < j => b[i].mSortKey <= b[j].mSortKey
    /\ \A k \in 0..MaxMat : Range(WithKey(a, k)) = Range(WithKey(b, k))

C11_SortPathsAgree ==
    pc = "sort" =>
        LET b == BucketSort32(sortedEntries, 0, maxSortKey)
            accepted == SmartSort32(sortedEntries)
        IN /\ b \in accepted
           /\ \A c \in StdSort(sortedEntries) : SameGrouping(b, c) /\ c \in accepted

C11_Witness ==
    /\ pc = "sort"
    /\ [i \in 1..Len(sortedEntries) |-> sortedEntries[i].mSortKey] = <<2, 0, 2>>
    /\ SmartSortPath(Len(sortedEntries)) = "bucket"
    /\ SmartSortPath(RAY_HANDLER_STD_SORT_CUTOFF) = "std"

\* C12: a miss that traversed no volume and intersects no visible light is
\* retired with a BundledRadiance of radiance (0,0,0) and alpha 0, at every
\* depth.
C12_PlainMissIsBlack ==
    (onePc = "done" /\ oneRay.hit = "miss" /\ ~oneRay.volHit /\ oneRay.light = "none") =>
        /\ Len(oneOut.rad) = 1
        /\ oneOut.rad[1].src = "miss"
        /\ oneOut.rad[1].radiance = <<0, 0, 0>>
        /\ oneOut.rad[1].alpha = 0
        /\ oneOut.toFree = 1

C12_Witness ==
    /\ onePc = "done" /\ oneRay.hit = "miss" /\ ~oneRay.volHit /\ oneRay.light = "none"
    /\ oneRay.depth = 1 /\ oneRay.pathPixelWeight = 10
    /\ oneOut.rad = <<[src |-> "miss", radiance |-> <<0, 0, 0>>, alpha |-> 0,
                       pathPixelWeight |-> 10]>>

\* C19: for a primary miss (depth 0) that finds a directly visible light and
\* carries a non-negative LPE state id, with an AOV schema active, the LPE
\* state is transitioned to the hit-light event and the light AOV accumulation
\* is invoked with the transitioned state id before the ray is retired.
C19_PrimaryLightMissFeedsLightAovs ==
    (/\ onePc = "done" /\ oneRay.hit = "miss" /\ oneRay.depth = 0
     /\ oneRay.light # "none" /\ oneRay.lpeStateId >= 0 /\ ~aovSchemaEmpty) =>
        \E i, j \in 1..Len(oneOut.aov) :
            /\ i < j
            /\ oneOut.aov[i].call = "lightEventTransition"
            /\ oneOut.aov[i].id = oneRay.lpeStateId
            /\ oneOut.aov[j].call = "lightAovs"
            /\ oneOut.aov[j].id = LightEventTransition(oneRay.lpeStateId)

\* ---- helpers of the claims on the occlusion resolvers
\* number of iterations handler h spent on ray id
NumOutcomes(h, id) == Cardinality({k \in 1..Len(outcome[h]) : outcome[h][k].ray = id})

\* number of BundledRadiance entries handler h wrote for ray id
NumRadiances(h, id) == Cardinality({k \in 1..Len(results[h]) : results[h][k].ray = id})

\* C13: in the presence resolver every ray produces exactly one
\* BundledRadiance; when presence is non-zero and shadowing is enabled its
\* radiance is (1 - presence) x transmittance x original radiance, otherwise
\* transmittance x original radiance; the value given to the unoccluded AOV
\* accounting is (1 - presence) x transmittance in every case.
C13_PresenceScaling ==
    HandlerFinished("presence") =>
        /\ Len(results["presence"]) = Len(occlRays)
        /\ \A id \in RayIds :
              LET o == OutcomeOf("presence", id)
                  p == o.presence
              IN /\ NumOutcomes("presence", id) = 1
                 /\ NumRadiances("presence", id) = 1
                 /\ Len(o.rad) = 1
                 /\ (p # 0 /\ ~disableShadowing) =>
                        o.rad[1].radiance * 100 =
                            (10 - p) * GetTransmittance(id) * OrigRadiance(id)
                 /\ (p = 0 \/ disableShadowing) =>
                        o.rad[1].radiance * 10 = GetTransmittance(id) * OrigRadiance(id)
                 /\ o.occlusionValue * 10 = (10 - p) * GetTransmittance(id)
                 /\ o.acct = <<"lightAovs:unoccluded:occlusionValue", "visibilityAovs">>

\* presence 0.4 with tr = (1,1,1) gives 0.6 x original; the second ray of the
\* batch has presence 0
C13_Witness ==
    /\ hpc["presence"] = "done"
    /\ ~disableShadowing
    /\ Len(occlRays) = 2
    /\ OutcomeOf("presence", 1).presence = 4
    /\ GetTransmittance(1) = 10
    /\ OutcomeOf("presence", 1).rad[1].radiance * 10 = 6 * OrigRadiance(1)
    /\ OutcomeOf("presence", 2).presence = 0

\* C14 as stated: an occluded STANDARD ray whose distance is less than
\* light.clearRadius + light.clearRadiusFalloffDistance produces one
\* BundledRadiance carrying a falloff-weighted contribution.
C14_FalloffWheneverInRange ==
    \A h \in {"occl", "xpu"} :
        HandlerFinished(h) =>
            \A id \in RayIds :
                (occlRays[id].type = "STANDARD" /\ occlRays[id].occluded /\ occlRays[id].inRange) =>
                    /\ Len(OutcomeOf(h, id).rad) = 1
                    /\ OutcomeOf(h, id).rad[1].kind = "falloff"

\* C14 amended: with shadowing enabled, an occluded STANDARD ray that carries
\* side data, whose light has a non-zero falloff distance and whose mMaxT is
\* below clearRadius + clearRadiusFalloffDistance produces exactly one
\* BundledRadiance, carrying calculateShadowFalloff of the attenuated radiance;
\* every other occluded STANDARD ray produces none.  CPU and GPU alike.
C14_FalloffContribution ==
    \A h \in {"occl", "xpu"} :
        (HandlerFinished(h) /\ ~disableShadowing) =>
            \A id \in RayIds :
                (occlRays[id].type = "STANDARD" /\ occlRays[id].occluded) =>
                    IF occlRays[id].hasData /\ occlRays[id].falloffDist /\ occlRays[id].inRange
                    THEN /\ OutcomeOf(h, id).rad =
                               <<[ray |-> id, kind |-> "falloff",
                                  radiance |-> CalculateShadowFalloff(Attenuated(id))]>>
                         /\ NumRadiances(h, id) = 1
                    ELSE /\ OutcomeOf(h, id).rad = <<>>
                         /\ NumRadiances(h, id) = 0

C14_Witness ==
    /\ hpc["occl"] = "done" /\ hpc["xpu"] = "done"
    /\ ~disableShadowing
    /\ occlRays = <<[type |-> "STANDARD", hasData |-> TRUE, occluded |-> TRUE,
                     falloffDist |-> TRUE, inRange |-> TRUE],
                    [type |-> "STANDARD", hasData |-> TRUE, occluded |-> TRUE,
                     falloffDist |-> FALSE, inRange |-> TRUE]>>
    /\ NumRadiances("occl", 1) = 1 /\ NumRadiances("xpu", 1) = 1
    /\ NumRadiances("occl", 2) = 0 /\ NumRadiances("xpu", 2) = 0

C17_OneSubResolverPerRay ==
    HandlerFinished("occl") =>
        \A id \in RayIds :
            /\ NumOutcomes("occl", id) = 1
            /\ IF occlRays[id].type = "STANDARD"
               THEN /\ OutcomeOf("occl", id).by = "areSingleRaysOccluded"
                    /\ OutcomeOf("occl", id).tests = 1
               ELSE /\ OutcomeOf("occl", id).by = "forceSingleRaysUnoccluded"
                    /\ OutcomeOf("occl", id).tests = 0

C17_Witness ==
    /\ hpc["occl"] = "done"
    /\ disableShadowing
    /\ Len(occlRays) = 2
    /\ occlRays[1].type = "FORCE_NOT_OCCLUDED" /\ occlRays[2].type = "STANDARD"
    /\ OutcomeOf("occl", 2).tests = 1 /\ OutcomeOf("occl", 1).tests = 0

\* C18 as stated: a FORCE_NOT_OCCLUDED ray is not part of the batch handed to
\* the GPU accelerator's occluded() call.
C18_ForcedNeverReachesGpu ==
    HandlerFinished("xpu") =>
        \A id \in RayIds :
            occlRays[id].type = "FORCE_NOT_OCCLUDED" => OutcomeOf("xpu", id).tests = 0

\* C18 amended: a FORCE_NOT_OCCLUDED ray is in the batch handed to the GPU
\* call (the whole array is passed), but its outcome does not depend on the GPU
\* output buffer: whatever the buffer holds for it, it gets exactly one
\* BundledRadiance with the attenuated radiance and the accounting of a forced
\* ray.
C18_ForcedIgnoresGpuBuffer ==
    HandlerFinished("xpu") =>
        \A id \in RayIds :
            occlRays[id].type = "FORCE_NOT_OCCLUDED" =>
                LET o == OutcomeOf("xpu", id) IN
                /\ o.tests = 1
                /\ o.rad = <<[ray |-> id, kind |-> "forced", radiance |-> Attenuated(id)]>>
                /\ o.acct = (IF occlRays[id].hasData THEN <<"lightAovs:none:tr">> ELSE <<>>)
                /\ o.lookups = <<>>

C18_Witness ==
    /\ hpc["xpu"] = "done"
    /\ ~disableShadowing
    /\ \E id \in RayIds :
          /\ occlRays[id].type = "FORCE_NOT_OCCLUDED"
          /\ occlRays[id].occluded
          /\ OutcomeOf("xpu", id).rad[1].kind = "forced"

\* C20 as stated: for every occluded STANDARD ray the occluded visibility
\* accounting is recorded, whatever its side data, in the CPU and the GPU
\* resolver.
C20_OccludedAlwaysAccounted ==
    \A h \in {"occl", "xpu"} :
        HandlerFinished(h) =>
            \A id \in RayIds :
                (occlRays[id].type = "STANDARD" /\ occlRays[id].occluded) =>
                    Count(OutcomeOf(h, id).acct, "visibilityAovsOccluded") = 1

\* C20 amended: with shadowing enabled, for every occluded STANDARD ray that
\* carries side data the occluded visibility accounting is recorded exactly
\* once, whether or not a falloff radiance entry is produced for it, in the
\* CPU and the GPU resolver; it is not recorded for a ray without side data.
C20_OccludedAccountedWithSideData ==
    \A h \in {"occl", "xpu"} :
        (HandlerFinished(h) /\ ~disableShadowing) =>
            \A id \in RayIds :
                (occlRays[id].type = "STANDARD" /\ occlRays[id].occluded) =>
                    Count(OutcomeOf(h, id).acct, "visibilityAovsOccluded") =
                        (IF occlRays[id].hasData THEN 1 ELSE 0)

C20_Witness ==
    /\ hpc["occl"] = "done" /\ hpc["xpu"] = "done"
    /\ ~disableShadowing
    /\ Len(occlRays) = 2
    /\ \A id \in RayIds :
          occlRays[id].type = "STANDARD" /\ occlRays[id].occluded /\ occlRays[id].hasData
    /\ OutcomeOf("xpu", 1).rad # <<>> /\ OutcomeOf("xpu", 2).rad = <<>>
    /\ \A id \in RayIds : \A h \in {"occl", "xpu"} :
          Count(OutcomeOf(h, id).acct, "visibilityAovsOccluded") = 1

\* ---- helpers of the claim on concurrent workers
\* what rayBundleHandler appends to the radiance queue for the batch of worker
\* w when it runs alone: one entry per null-material hit inside a volume and
\* one per miss
AloneRadiances(w) ==
    LET b == par[w].batch IN
    {[rs |-> PoolIdx(w, i), src |-> "nomat", worker |-> w] :
        i \in {k \in 1..Len(b) : b[k].hit = "nomat" /\ b[k].volHit}}
    \cup {[rs |-> PoolIdx(w, i), src |-> "miss", worker |-> w] :
        i \in {k \in 1..Len(b) : b[k].hit = "miss"}}

\* RayStates of the batch of worker w that hit material m
AloneForwarded(w, m) ==
    {PoolIdx(w, i) : i \in {k \in 1..Len(par[w].batch) :
                              par[w].batch[k].hit = "mat" /\ par[w].batch[k].mat = m}}

ParAllDone == \A w \in ParWorkers : par[w].pc \in {"done", "overrun"}

\* C15: workers processing disjoint batches concurrently share only the
\* queues: no worker touches a RayState of another worker's batch (the ones it
\* frees and forwards are its own), and once all have returned the radiance
\* queue and every shade queue hold exactly the entries the workers produce
\* when run one after the other.
C15_WorkersShareOnlyQueues ==
    /\ \A w \in ParWorkers :
          /\ Range(par[w].freed) \subseteq OwnPool(w)
          /\ Range(par[w].toFree) \subseteq OwnPool(w)
    /\ ParAllDone =>
          /\ Range(radianceQueue) = UNION {AloneRadiances(w) : w \in ParWorkers}
          /\ NoDuplicates(radianceQueue)
          /\ \A m \in 1..MaxMat :
                LET fwd == [k \in 1..Len(parShadeQueues[m]) |-> Range(parShadeQueues[m][k])]
                IN /\ UNION Range(fwd) = UNION {AloneForwarded(w, m) : w \in ParWorkers}
                   /\ \A j, k \in 1..Len(fwd) : j # k => fwd[j] \cap fwd[k] = {}

\* ---- claims on the values of one RayState, continued
\* C21: the alpha of the radiance retired for a primary-ray miss follows the
\* five cases: a light that is opaque in alpha gives the full path pixel
\* weight; a light that is not, behind a volume, gives pixelWeight * (1 -
\* reduced volume alpha transmittance); a light that is not, without volume,
\* gives 0; no light but a volume gives pixelWeight * (1 - reduced volume alpha
\* transmittance); neither gives 0.  The volume radiance is added to the light
\* radiance in every case.
C21_PrimaryMissAlphaPolicy ==
    (onePc = "done" /\ oneRay.hit = "miss" /\ oneRay.depth = 0) =>
        LET w == oneRay.pathPixelWeight
            volumeAlpha == (w * (10 - oneRay.volTalpha)) \div 10
            lightRadiance ==
                IF oneRay.light = "none" THEN <<0, 0, 0>>
                ELSE IF oneRay.volHit THEN <<4, 4, 4>>
                ELSE <<8, 8, 8>>
            r == oneOut.rad[Len(oneOut.rad)]
        IN /\ Len(oneOut.rad) = 1
           /\ r.src = "miss"
           /\ r.alpha = CASE oneRay.light = "opaque" -> w
                          [] oneRay.light = "transparent" /\ oneRay.volHit -> volumeAlpha
                          [] oneRay.light = "transparent" /\ ~oneRay.volHit -> 0
                          [] oneRay.light = "none" /\ oneRay.volHit -> volumeAlpha
                          [] OTHER -> 0
           /\ r.radiance = <<lightRadiance[1] + oneRay.volRad,
                             lightRadiance[2] + oneRay.volRad,
                             lightRadiance[3] + oneRay.volRad>>

C21_Witness ==
    /\ onePc = "done" /\ oneRay.hit = "miss" /\ oneRay.depth = 0
    /\ oneRay.light = "transparent" /\ oneRay.volHit
    /\ oneRay.pathPixelWeight = 5 /\ oneRay.volTalpha = 4 /\ oneRay.volRad = 2
    /\ oneOut.rad = <<[src |-> "miss", radiance |-> <<6, 6, 6>>, alpha |-> 3,
                       pathPixelWeight |-> 5]>>

\* number of visibility-attempt accounting calls made for the RayState
NumVisibilityAttempts ==
    Cardinality({i \in 1..Len(oneOut.aov) : oneOut.aov[i].call = "visibilityAttempts"})

\* C29: for a miss at depth 0 while the AOV schema is non-empty exactly one
\* visibility-attempt accounting call is made, with the count lightSampleCount
\* * lightCount; no such call is made for a miss at depth > 0, for a hit, or
\* when the AOV schema is empty.
C29_VisibilityAttempts ==
    (onePc \in {"miss", "done"}) =>
        IF oneRay.hit = "miss" /\ oneRay.depth = 0 /\ ~aovSchemaEmpty
        THEN /\ NumVisibilityAttempts = 1
             /\ \A i \in 1..Len(oneOut.aov) :
                   oneOut.aov[i].call = "visibilityAttempts" =>
                       oneOut.aov[i].count = lightSampleCount * lightCount
        ELSE NumVisibilityAttempts = 0

C29_Witness ==
    /\ onePc = "done" /\ oneRay.hit = "miss" /\ oneRay.depth = 0 /\ ~aovSchemaEmpty
    /\ lightSampleCount = 2 /\ lightCount = 3
    /\ oneOut.aov[1].call = "visibilityAttempts" /\ oneOut.aov[1].count = 6
    /\ NumVisibilityAttempts = 1

\* ---- claims on the structure of rayBundleHandler, continued
\* the classification loop has run
Classified == \E k \in 1..Len(stagesRun) : stagesRun[k] = "classify"

\* number of BundledRadiance entries in the radiance queue for RayState i
NumQueuedFor(i) == Cardinality({k \in 1..Len(radianceQueue) : radianceQueue[k].rs = i})

\* C22: a hit without material is never entered into the sort and never
\* forwarded to a shade queue; its RayState is in the bulk-release list exactly
\* once, and exactly one BundledRadiance is appended to the radiance queue for
\* it if the ray traversed a volume, none otherwise.
C22_NullMaterialHit ==
    Classified =>
        \A i \in 1..Len(rayStates) :
            rayStates[i].hit = "nomat" =>
                /\ \A k \in 1..Len(sortedEntries) : sortedEntries[k].mRsIdx # i
                /\ i \notin ForwardedSet
                /\ Count(rayStatesToFree, i) = 1
                /\ NumQueuedFor(i) = (IF rayStates[i].volHit THEN 1 ELSE 0)

\* the ray-state indices of the batch whose material has id m
IndicesOfMaterial(m) ==
    {i \in 1..Len(rayStates) : rayStates[i].hit = "mat" /\ rayStates[i].mat = m}

\* number of places ray-state index i has in the addEntries calls
NumSubmissionsOf(i) ==
    SeqSum([m \in 1..MaxMat |->
        SeqSum([k \in 1..Len(shadeQueues[m]) |-> Count(shadeQueues[m][k], i)])])

\* C23: after sorting, each material id present in the batch receives exactly
\* one addEntries call on its own shade queue, carrying all and only the
\* ray-state indices of the batch whose material has that id; every sorted hit
\* entry is part of exactly one submission.
C23_OneSubmissionPerMaterial ==
    /\ \A m \in 1..MaxMat :
          /\ Len(shadeQueues[m]) <= 1
          /\ \A k \in 1..Len(shadeQueues[m]) :
                /\ Range(shadeQueues[m][k]) = IndicesOfMaterial(m)
                /\ Len(shadeQueues[m][k]) = Cardinality(IndicesOfMaterial(m))
    /\ pc = "done" =>
          /\ \A m \in 1..MaxMat :
                Len(shadeQueues[m]) = (IF IndicesOfMaterial(m) = {} THEN 0 ELSE 1)
          /\ \A k \in 1..Len(sortedEntries) :
                sortedEntries[k].mSortKey # 0 =>
                    NumSubmissionsOf(sortedEntries[k].mRsIdx) = 1

C23_Witness ==
    /\ pc = "done"
    /\ Len(rayStates) = 3
    /\ IndicesOfMaterial(2) = {1, 3}
    /\ IndicesOfMaterial(1) = {2}
    /\ Len(shadeQueues[2]) = 1 /\ Range(shadeQueues[2][1]) = {1, 3}
    /\ shadeQueues[1] = <<(<<2>>)>>

\* positions in calls of the calls made at source line at
CallsAt(at) == {k \in 1..Len(calls) : calls[k].at = at}

\* the miss block (498-668) has run
MissesRetired == \E k \in 1..Len(stagesRun) : stagesRun[k] = "misses"

\* number of miss radiances in the radiance queue
NumMissRadiances ==
    Cardinality({k \in 1..Len(radianceQueue) : radianceQueue[k].src = "miss"})

\* C26: the misses of a batch are retired and released together: their
\* radiances are appended to the radiance queue in a single
\* addRadianceQueueEntries call of size numMisses, and the RayStates to free
\* (misses and null-material hits) are released in a single freeRayStates call
\* that comes before every shade-queue submission.
C26_MissesRetiredTogether ==
    /\ Cardinality(CallsAt(665)) <= 1
    /\ \A k \in CallsAt(665) : calls[k].n = numMisses /\ numMisses > 0
    /\ MissesRetired =>
          /\ NumMissRadiances = numMisses
          /\ numMisses > 0 => Cardinality(CallsAt(665)) = 1
    /\ Cardinality(CallsAt(673)) <= 1
    /\ \A k \in CallsAt(673) :
          /\ calls[k].n = Len(rayStatesToFree)
          /\ freed = rayStatesToFree
          /\ Len(rayStatesToFree) = numMisses + Len(SelectSeq(rayStates, LAMBDA r : r.hit = "nomat"))
    /\ \A k \in CallsAt(710) : \E j \in CallsAt(673) : j < k
    /\ NumForwarded > 0 => Cardinality(CallsAt(673)) = 1
    /\ pc = "done" => Cardinality(CallsAt(673)) = 1

C26_Witness ==
    /\ pc = "done"
    /\ NumMissRays = 2 /\ numMisses = 2
    /\ \E i \in 1..Len(rayStates) : rayStates[i].hit = "mat"
    /\ calls = <<[fn |-> "addRadianceQueueEntries", at |-> 665, n |-> 2],
                 [fn |-> "freeRayStates", at |-> 673, n |-> 2],
                 [fn |-> "addEntries", at |-> 710, n |-> 1]>>

\* ---- claims on the arena of the worker
\* the length of the addEntries call made last
LastSubmission == calls[Len(calls)].n

\* C27: at the start of every iteration of the per-material submission loop
\* the arena pointer equals the bookmark taken before the loop; the scratch of
\* a material's sub-batch, in use when it is submitted, is released before the
\* next material run is built.
C27_BookmarkAtEachIteration ==
    /\ pc = "shade" => arenaPtr = memBookmark
    /\ pc = "pollShade" => arenaPtr = memBookmark + LastSubmission

C27_Witness ==
    /\ pc = "shade"
    /\ Cardinality(CallsAt(710)) = 1
    /\ currEntry <= Len(sortedEntries)
    /\ memBookmark > scopedMem
    /\ arenaPtr = memBookmark

\* C28: when a handler returns, by normal completion or by a cancellation
\* early return (the one taken after a shade-queue submission and before the
\* bookmark rewind included), the arena pointer of the worker is back at the
\* value it had on entry to the handler.
C28_ArenaRestoredOnReturn ==
    /\ pc \in {"done", "cancelled"} => arenaPtr = scopedMem
    /\ (NoneRunning /\ \E h \in Handlers : hpc[h] \in {"done", "cancelled"}) =>
          arenaPtr = scopedMem
    /\ \A h \in Handlers : hpc[h] = "resolved" => arenaPtr = scopedMem + Len(occlRays)

C28_Witness ==
    /\ pc = "cancelled"
    /\ stagesRun[Len(stagesRun)] = "shade"
    /\ memBookmark > scopedMem
    /\ arenaPtr = scopedMem

\* ---- claims on the occlusion resolvers, continued
\* the FORCE_NOT_OCCLUDED rays of the batch
ForcedIds == {id \in RayIds : occlRays[id].type = "FORCE_NOT_OCCLUDED"}

\* C24: every FORCE_NOT_OCCLUDED ray produces exactly one BundledRadiance whose
\* radiance is the radiance of the ray multiplied by the volumetric
\* transmittance, whatever the occlusion answer for the ray is, on the CPU and
\* on the GPU path; forceSingleRaysUnoccluded fills as many results as the
\* rays it is given.
C24_ForcedRayOneRadiance ==
    /\ \A h \in {"occl", "xpu"} : HandlerFinished(h) =>
          \A id \in ForcedIds :
              /\ NumRadiances(h, id) = 1
              /\ \A k \in 1..Len(results[h]) :
                    results[h][k].ray = id =>
                        /\ results[h][k].kind = "forced"
                        /\ results[h][k].radiance * 10 =
                               OrigRadiance(id) * GetTransmittance(id)
    /\ HandlerFinished("occl") =>
          /\ \A id \in ForcedIds :
                /\ OutcomeOf("occl", id).tests = 0
                /\ OutcomeOf("occl", id).lookups = <<>>
          /\ Cardinality({k \in 1..Len(results["occl"]) : results["occl"][k].kind = "forced"})
                = Cardinality(ForcedIds)

C24_Witness ==
    /\ hpc["occl"] = "done" /\ hpc["xpu"] = "done"
    /\ ~disableShadowing
    /\ ForcedIds = {1, 2}
    /\ occlRays[1].occluded /\ occlRays[2].occluded
    /\ results["occl"] = <<[ray |-> 1, kind |-> "forced", radiance |-> 100],
                           [ray |-> 2, kind |-> "forced", radiance |-> 100]>>
    /\ results["xpu"] = results["occl"]

\* the STANDARD rays of the batch that take the unoccluded branch
UnoccludedIds ==
    {id \in RayIds : /\ occlRays[id].type = "STANDARD"
                     /\ (~occlRays[id].occluded \/ disableShadowing)}

\* C25: a STANDARD ray that is unoccluded, and any STANDARD ray when shadowing
\* is disabled, produces exactly one BundledRadiance, the radiance of the ray
\* attenuated by its transmittance, together with the unoccluded AOV / LPE
\* accounting (made on the side data of the ray); with shadowing disabled a
\* batch of STANDARD rays produces as many radiances as it has rays.
C25_UnoccludedStandardRay ==
    \A h \in {"occl", "xpu"} : HandlerFinished(h) =>
        /\ \A id \in UnoccludedIds :
              /\ NumRadiances(h, id) = 1
              /\ \A k \in 1..Len(results[h]) :
                    results[h][k].ray = id =>
                        /\ results[h][k].kind = "unoccluded"
                        /\ results[h][k].radiance * 10 =
                               OrigRadiance(id) * GetTransmittance(id)
              /\ OutcomeOf(h, id).acct =
                    (IF occlRays[id].hasData
                     THEN <<"lightAovs:unoccluded:tr", "visibilityAovs">>
                     ELSE <<>>)
        /\ (disableShadowing /\ ForcedIds = {}) => Len(results[h]) = Len(occlRays)

C25_Witness ==
    /\ hpc["occl"] = "done" /\ hpc["xpu"] = "done"
    /\ disableShadowing
    /\ Len(occlRays) = 2 /\ ForcedIds = {}
    /\ occlRays[1].occluded /\ occlRays[2].occluded /\ occlRays[1].hasData
    /\ Len(results["occl"]) = 2 /\ Len(results["xpu"]) = 2
    /\ OutcomeOf("occl", 1).acct = <<"lightAovs:unoccluded:tr", "visibilityAovs">>

\* number of results the CPU handler holds for STANDARD rays
NumStandardResults ==
    Cardinality({k \in 1..Len(results["occl"]) :
                    results["occl"][k].kind # "unwritten"
                    /\ occlRays[results["occl"][k].ray].type = "STANDARD"})

\* C30: in every occlusion handler the number of BundledRadiance entries
\* filled never exceeds the number of rays of the batch and every write into
\* the results buffer is at an index below the batch size; on the CPU path the
\* results of the STANDARD rays occupy a prefix [0, k), followed at once by the
\* results of the forced rays, with no slot written twice and no gap.
C30_ResultsBufferLayout ==
    /\ \A h \in Handlers : HandlerFinished(h) =>
          /\ Len(results[h]) <= Len(occlRays)
          /\ \A k \in 1..Len(results[h]) : results[h][k].kind # "unwritten"
          /\ SameMultiset(results[h], Filled(outcome[h]))
    /\ HandlerFinished("occl") =>
          LET k == NumStandardResults
              numForced == Len(results["occl"]) - k
          IN /\ \A j \in 1..Len(results["occl"]) :
                    (j <= k) <=> (occlRays[results["occl"][j].ray].type = "STANDARD")
             /\ \A i \in 0..(numForced - 1) :
                    /\ ForcedBase(k, NumStandard(occlRays)) + i < Len(occlRays)
                    /\ ForcedBase(k, NumStandard(occlRays)) + i = k + i
             /\ numForced = Cardinality(ForcedIds)

C30_Witness ==
    /\ hpc["occl"] = "done"
    /\ ~disableShadowing
    /\ Len(occlRays) = 2
    /\ occlRays[1].type = "FORCE_NOT_OCCLUDED"
    /\ occlRays[2].type = "STANDARD" /\ occlRays[2].occluded /\ ~occlRays[2].hasData
    /\ results["occl"] = <<[ray |-> 1, kind |-> "forced", radiance |-> 100]>>

\* ---- claims on the miss run and on the handles of the occlusion rays
\* C31: the length of the miss run is never greater than the number of sorted
\* entries (numMisses <= numSortedEntries) and only entries written by the
\* classification loop are read as misses, for every batch, also for a batch
\* in which every ray hits geometry without material (numSortedEntries = 0):
\* every miss radiance in the queue and every RayState released as a miss
\* belongs to a ray of the batch that hit nothing.
C31_MissRunWithinSortedEntries ==
    /\ numMisses <= Len(sortedEntries)
    /\ \A k \in 1..Len(radianceQueue) :
          radianceQueue[k].src = "miss" =>
              /\ radianceQueue[k].rs \in 1..Len(rayStates)
              /\ rayStates[radianceQueue[k].rs].hit = "miss"
    /\ NumMissRadiances <= NumMissRays

\* C32: areSingleRaysOccluded reads the side-data list of a ray (getListItem
\* on mDataPtrHandle) only when that handle is non-null: a STANDARD ray whose
\* side-data handle is the null handle is resolved without any lookup through
\* the null handle.
C32_NoLookupThroughNullHandle ==
    HandlerFinished("occl") =>
        \A k \in 1..Len(outcome["occl"]) :
            outcome["occl"][k].by = "areSingleRaysOccluded" =>
                \A j \in 1..Len(outcome["occl"][k].lookups) :
                    outcome["occl"][k].lookups[j] = TRUE

\* C33: the presence resolver releases the deep-data handle of each ray
\* exactly once, as the CPU occlusion resolver does, in addition to the
\* side-data list and the cryptomatte handle.
C33_PresenceReleasesDeepData ==
    HandlerFinished("presence") =>
        \A id \in RayIds :
            /\ ReleaseCount("presence", id, "releaseDeepData") = 1
            /\ ReleaseCount("presence", id, "freeList") = 1
            /\ ReleaseCount("presence", id, "releaseCryptomatteData") = 1

\* number of radiance-queue entries appended by handler h
NumQueuedBy(h) == Cardinality({k \in 1..Len(radianceQueue) : radianceQueue[k].src = h})

\* C34: when an occlusion handler (CPU, presence, GPU) observes cancellation,
\* the side-data handle of every ray of the batch has nevertheless been
\* released exactly once, the releases being made before the cancellation
\* check; cancellation only drops the computed radiances.
C34_CancelledHandlerReleasedSideData ==
    \A h \in Handlers :
        /\ hpc[h] \in {"resolved", "cancelled"} =>
              \A id \in RayIds :
                  /\ NumOutcomes(h, id) = 1
                  /\ ReleaseCount(h, id, "freeList") = (IF occlRays[id].hasData THEN 1 ELSE 0)
        /\ hpc[h] = "cancelled" => NumQueuedBy(h) = 0

C34_Witness ==
    /\ hpc["presence"] = "cancelled"
    /\ Len(occlRays) = 2
    /\ Len(results["presence"]) = 2
    /\ NumQueuedBy("presence") = 0
    /\ \A id \in RayIds : ReleaseCount("presence", id, "freeList") = 1

\* ---- claims on the values of one RayState, at depth > 0
\* C35: for a miss with depth > 0 no visible-light lookup is made: the
\* retired radiance is the volume radiance of the ray only and its alpha is 0,
\* also when the ray traversed a volume (and whatever light lies along it).
C35_SecondaryMissVolumeOnly ==
    (onePc = "done" /\ oneRay.hit = "miss" /\ oneRay.depth > 0) =>
        /\ oneOut.lightLookups = 0
        /\ Len(oneOut.rad) = 1
        /\ oneOut.rad[1].src = "miss"
        /\ oneOut.rad[1].radiance = <<oneRay.volRad, oneRay.volRad, oneRay.volRad>>
        /\ oneOut.rad[1].alpha = 0

C35_Witness ==
    /\ onePc = "done" /\ oneRay.hit = "miss" /\ oneRay.depth = 1
    /\ oneRay.volHit /\ oneRay.volRad = 2 /\ oneRay.volTalpha = 4
    /\ oneRay.light = "opaque" /\ oneRay.pathPixelWeight = 10
    /\ oneOut.lightLookups = 0
    /\ oneOut.rad = <<[src |-> "miss", radiance |-> <<2, 2, 2>>, alpha |-> 0,
                       pathPixelWeight |-> 10]>>

\* ---- claim on the secondary sort key
\* the number a key stands for, split as its upper and lower 16 bits
KeyOf(g, p) ==
    [hi |-> (g % 4096) * 16 + (p % 1048576) \div 65536, lo |-> p % 65536]

\* C36: the secondary sort key of a shade sub-batch entry is ((geomID mod
\* 2^12) * 2^20) + (primID mod 2^20): it fits in 32 bits, the geometry field
\* and the primitive field never overlap, and two rays with geomID < 4096 and
\* primID < 2^20 get equal keys exactly when they have the same geometry id and
\* the same primitive id.
C36_SecondarySortKey ==
    shadeKeys # <<>> =>
        /\ \A i \in 1..Len(shadeRays) :
              LET g == shadeRays[i].geomID
                  p == shadeRays[i].primID
                  k == shadeKeys[i]
              IN /\ k = KeyOf(g, p)
                 /\ k.hi \in 0..65535 /\ k.lo \in 0..65535
                 /\ k.hi \div 16 = g % 4096
                 /\ (k.hi % 16) * 65536 + k.lo = p % 1048576
        /\ \A i, j \in 1..Len(shadeRays) :
              (/\ shadeRays[i].geomID < 4096 /\ shadeRays[i].primID < 1048576
               /\ shadeRays[j].geomID < 4096 /\ shadeRays[j].primID < 1048576) =>
                  (shadeKeys[i] = shadeKeys[j] <=> shadeRays[i] = shadeRays[j])

C36_Witness ==
    /\ shadeKeys # <<>>
    /\ shadeRays[1] = [geomID |-> 4095, primID |-> 1048575]
    /\ shadeRays[2] = [geomID |-> 4095, primID |-> 65536]
    /\ shadeKeys[1] = [hi |-> 65535, lo |-> 65535]
    /\ shadeKeys[2] = [hi |-> 65521, lo |-> 0]

====
